---- MODULE Spec2Model ----
(***************************************************************************)
(* Model of the command orchestration layer of audfprint                   *)
(* (src/audfprint.py): the command planner main, the single-process        *)
(* executor do_cmd, the multi-process executor do_cmd_multiproc and the    *)
(* partition-build-merge pipeline multiproc_add / make_ht_from_list.       *)
(*                                                                         *)
(* The fingerprint index (hash_table.HashTable), the analyzer              *)
(* (audfprint_analyze.Analyzer) and the matcher (audfprint_match.Matcher)  *)
(* are collaborators whose code is not part of src/; they are modelled     *)
(* from their description in spec.md (operators HT*, Hashes, Dur).         *)
(*                                                                         *)
(* A run is entered either through main (the command line) or through a    *)
(* direct call of do_cmd_multiproc or do_cmd by a caller that supplies     *)
(* every positional argument; `entry' records which.                       *)
(***************************************************************************)
EXTENDS Integers, Sequences, FiniteSets, TLC

(***************************************************************************)
(* Bounds of the model.                                                    *)
(***************************************************************************)
MaxFiles == 3
MaxCores == 3
MaxHash == 1
MaxWorkers == 3
MaxArgs == 2
MaxText == 3
MaxPath == 4
MaxPrefix == 2

(***************************************************************************)
(* Program constants and input domains.                                    *)
(***************************************************************************)
FileNames == {"a", "b"}
Commands == {"new", "add", "precompute", "merge", "newmerge", "match", "list", "remove"}
MultiprocCommands == {"precompute", "match", "new", "add"}
SingleOnlyCommands == {"merge", "newmerge", "list", "remove"}
\* a command name that is none of the eight
UnknownCommand == "bogus"
DefaultSamplerate == 11025
OtherSamplerate == 2 * DefaultSamplerate
NoSR == 0
NoNumber == -1
NoPath == ""
DbPath == "db"
None == [entries |-> <<>>, dirty |-> FALSE, samplerate |-> -1]

RECURSIVE SeqsUpTo(_, _)
SeqsUpTo(S, n) ==
    IF n = 0 THEN {<<>>}
    ELSE LET shorter == SeqsUpTo(S, n - 1)
         IN shorter \cup {Append(s, x) : s \in {t \in shorter : Len(t) = n - 1}, x \in S}

RECURSIVE SumCounts(_)
SumCounts(es) == IF es = <<>> THEN 0 ELSE es[1][2] + SumCounts(Tail(es))

(***************************************************************************)
(* Fingerprint index (hash_table.HashTable).  An index is its list of      *)
(* stored files in id order, each with its number of stored entries, the   *)
(* samplerate parameter (NoSR when params has no samplerate) and the dirty *)
(* flag: set by any store, merge or remove, cleared only by save.          *)
(***************************************************************************)
HTNew == [entries |-> <<>>, dirty |-> FALSE, samplerate |-> NoSR]

HTLoad(d) == [entries |-> d.entries, dirty |-> FALSE, samplerate |-> d.samplerate]

HTNames(ht) == {ht.entries[i][1] : i \in 1..Len(ht.entries)}

HTStore(ht, name, n) ==
    [ht EXCEPT !.entries =
                 IF name \in HTNames(ht)
                 THEN [i \in 1..Len(ht.entries) |->
                         IF ht.entries[i][1] = name
                         THEN <<name, ht.entries[i][2] + n>>
                         ELSE ht.entries[i]]
                 ELSE Append(ht.entries, <<name, n>>),
               !.dirty = TRUE]

HTMerge(ht, ht2) == [ht EXCEPT !.entries = ht.entries \o ht2.entries, !.dirty = TRUE]

HTRemove(ht, name) ==
    IF name \in HTNames(ht)
    THEN [ht EXCEPT !.entries = SelectSeq(ht.entries, LAMBDA e : e[1] # name),
                    !.dirty = TRUE]
    ELSE ht

HTStored(ht) == [entries |-> ht.entries, samplerate |-> ht.samplerate]

\* number of entries stored for `name' in index ht
PerFileCount(ht, name) ==
    SumCounts(SelectSeq(ht.entries, LAMBDA e : e[1] = name))

\* one logged message
Msg(kind, file, num) == [kind |-> kind, file |-> file, num |-> num]

VARIABLES
    entry,        \* "main", "do_cmd_multiproc" or "do_cmd": the function the run enters
    cmd,          \* the command
    dbase,        \* --dbase, NoPath when not given
    ncores,       \* --ncores
    files,        \* the sequence the filename iterator yields
    nhash,        \* number of hashes the analyzer finds in each file
    unreadable,   \* files the analyzer cannot read
    continue_on_error,
    skip_existing,
    precompute_peaks,
    dbsr,         \* samplerate of the index stored in each file (merge, newmerge)
    pc,           \* position of the orchestrating process
    err,          \* the exception that ended the run, "none" otherwise
    hash_tab,     \* the primary index handle, None when absent
    disk,         \* index stored at dbase, None when there is no file
    saves,        \* the save calls so far: <<owner, path>>
    ix,           \* number of filenames taken from the iterator
    tothashes,    \* do_cmd new/add: hashes added so far
    totaldur,     \* analyzer.soundfiletotaldur
    log,          \* the messages passed to logger.trace, in order
    filelists,    \* multiproc_add: the partitions
    wpc,          \* position of each worker process
    wix,          \* number of files each worker has stored
    wht,          \* the partial index of each worker
    pipe,         \* what has been sent over each pipe and not yet received
    nsent,        \* number of sends of each worker
    core,         \* multiproc_add: index of the gather loop
    hash_tabx,    \* multiproc_add: the partial just received
    merged,       \* cores whose partial has been merged, in merge order
    tstate,       \* joblib task of each file position
    tresult,      \* message returned by each finished task
    completed,    \* task positions in completion order
    artifacts,    \* precomputed files that exist under precompdir
    analyzed,     \* number of analyzer calls so far
    hash_tab0,    \* the primary index as the executor found it
    mutations,    \* number of store, merge and remove calls that changed the primary
    executors,    \* the executors whose body has been entered
    dbdir,        \* the directory of dbase: "exists", "absent" or "blocked"
    run,          \* 1 in the first run of the command line, 2 when it is run again
    writes,       \* number of precomputed files written in this run
    outdir_exists, \* whether the directory of the precomputed files exists
    blocking_send, \* whether a partial index exceeds what a pipe buffers
    htsize,       \* hashbits, depth and maxtimebits of the primary index
    wsize,        \* the arguments each worker's HashTable was created with
    diag,         \* the logger.debug messages of main's set-up
    epc,          \* ensure_dir race: position of each precompute worker
    dir_made,     \* ensure_dir race: whether the output subdirectory exists
    ewrote,       \* ensure_dir race: the workers that have written their file
    eraced,       \* ensure_dir race: the workers whose os.makedirs raised
    filelist,     \* resolver: the raw arguments
    listflag,     \* resolver: whether the arguments name list files
    wavdir,       \* resolver: the base directory
    wavext,       \* resolver: the extension appended to every name
    fcontent,     \* resolver: the text of each list file, Unreadable if it cannot be opened
    lcoe,         \* resolver run: the continue-on-error flag
    lpc,          \* resolver run: position of the consumer and the generator
    gix,          \* resolver: number of arguments the generator has finished
    grest,        \* resolver: the unread rest of the open list file
    opened,       \* resolver: the list files opened so far, in order
    yielded,      \* resolver: the paths yielded so far, in order
    ingested,     \* resolver run: the paths stored in the index so far
    lsaved,       \* resolver run: whether the index has been saved
    filename,     \* output name: the input file of file_precompute_peaks_or_hashes
    strip_prefix, \* output name: the prefix to strip, empty when none
    precompdir,   \* output name: the output directory
    hashes_not_peaks, \* output name: the kind of precomputed file
    opc,          \* output name: position in lines 70-85
    tail_filename, \* output name: the local of line 70-73
    relname,      \* output name: the local of line 77
    root,         \* output name: the local of line 79
    opfname       \* output name: the local of line 85

inputs == <<entry, cmd, dbase, ncores, files, nhash, unreadable,
            continue_on_error, skip_existing, precompute_peaks, dbsr>>
orch == <<pc, err, hash_tab, disk, saves, ix, tothashes, totaldur, log>>
mpadd == <<filelists, wpc, wix, wht, pipe, nsent, core, hash_tabx, merged>>
par == <<tstate, tresult, completed>>
fs == <<artifacts, analyzed>>
hist == <<hash_tab0, mutations>>
aux == <<executors, dbdir, run, writes, outdir_exists>>
mpenv == <<blocking_send, htsize, wsize, diag>>
race == <<epc, dir_made, ewrote, eraced>>
resolver == <<filelist, listflag, wavdir, wavext, fcontent, lcoe, lpc, gix, grest,
              opened, yielded, ingested, lsaved>>
opf == <<filename, strip_prefix, precompdir, hashes_not_peaks, opc, tail_filename,
         relname, root, opfname>>
sub == <<race, resolver, opf>>
ext == <<mpenv, sub>>
mainvars == <<inputs, orch, mpadd, par, fs, hist, aux, mpenv>>
vars == <<inputs, orch, mpadd, par, fs, hist, aux, ext>>

Cores == 0..(ncores - 1)
Positions == 1..Len(files)

\* analyzer.wavfile2hashes / wavfile2peaks: an unreadable file yields nothing
Hashes(f) == IF f \in unreadable THEN 0 ELSE nhash[f]
\* analyzer.soundfiledur of that call
Dur(f) == IF f \in unreadable THEN 0 ELSE 1
\* the analyzer raises on an unreadable file unless --continue-on-error
AnalysisFails(f) == f \in unreadable /\ ~continue_on_error

\* file_precompute_peaks_or_hashes, lines 79-85: the output file of input f
PRECOMPEXT == ".afpt"
PRECOMPPKEXT == ".afpk"
OpfName(f) == [root |-> f, ext |-> IF ~precompute_peaks THEN PRECOMPEXT ELSE PRECOMPPKEXT]

\* the index stored in file f, an argument of merge / newmerge
OtherDb(f) == [entries |-> << <<f, 1>> >>, samplerate |-> dbsr[f]]

StoredDbs == {[entries |-> <<>>, samplerate |-> NoSR],
              [entries |-> << <<"a", 1>> >>, samplerate |-> DefaultSamplerate]}

\* setup_analyzer, line 283: analyzer.target_sr, the --samplerate option
target_sr == DefaultSamplerate

\* an index that was built from audio resampled to another rate
MismatchedDb == [entries |-> << <<"a", 1>> >>, samplerate |-> OtherSamplerate]

UsesAnalyzer == cmd \notin SingleOnlyCommands

\* the size parameters of an index: main's defaults (lines 317-320, 358-359)
\* and those of an index that was built with other options
DefaultSize == [hashbits |-> 20, depth |-> 100, maxtimebits |-> 14]
OtherSize == [hashbits |-> 16, depth |-> 50, maxtimebits |-> 10]
NoSize == [hashbits |-> 0, depth |-> 0, maxtime |-> 0]

\* make_ht_args that passes the number of bits where the time range is expected
make_ht_args_bits == [hashbits |-> htsize.hashbits,
                      depth |-> htsize.depth,
                      maxtime |-> htsize.maxtimebits]

\* multiproc_add, lines 211-214: the sizes passed to make_ht_from_list
make_ht_args == [hashbits |-> htsize.hashbits,
                 depth |-> htsize.depth,
                 maxtime |-> 2 ^ htsize.maxtimebits]

\* the direct calls of do_cmd_multiproc that reach multiproc_add
DirectAdd == entry = "do_cmd_multiproc" /\ cmd \in {"new", "add"}

\* the variables of the separate specifications, at rest
OpfIdle ==
    /\ filename = <<>> /\ strip_prefix = <<>> /\ precompdir = <<>>
    /\ hashes_not_peaks = TRUE /\ opc = "idle" /\ tail_filename = <<>>
    /\ relname = <<>> /\ root = <<>> /\ opfname = <<>>
RaceIdle == epc = <<>> /\ dir_made = FALSE /\ ewrote = {} /\ eraced = {}
ResolverIdle ==
    /\ filelist = <<>> /\ listflag = FALSE /\ wavdir = <<>> /\ wavext = <<>>
    /\ fcontent = <<>> /\ lcoe = FALSE /\ lpc = "idle" /\ gix = 0 /\ grest = <<>>
    /\ opened = <<>> /\ yielded = <<>> /\ ingested = <<>> /\ lsaved = FALSE

Init ==
    /\ entry \in {"main", "do_cmd_multiproc", "do_cmd"}
    /\ cmd \in Commands \cup {UnknownCommand}
    /\ entry = "do_cmd_multiproc" => cmd \in MultiprocCommands \cup {"list", UnknownCommand}
    \* main reaches do_cmd with each of the eight commands; a direct caller
    \* of do_cmd is modelled for the other command names
    /\ entry = "do_cmd" => cmd = UnknownCommand
    /\ dbase \in {NoPath, DbPath}
    /\ entry # "main" => dbase = DbPath
    /\ ncores \in 1..MaxCores
    /\ entry = "do_cmd" => ncores = 1
    /\ files \in SeqsUpTo(FileNames, MaxFiles)
    /\ nhash \in {[f \in FileNames |-> IF f = "a" THEN 1 ELSE h] : h \in 0..MaxHash}
    /\ cmd \notin {"new", "add", "precompute"} => nhash = [f \in FileNames |-> 1]
    /\ unreadable \in {{}, {"b"}}
    /\ cmd \notin {"new", "add", "precompute", "match"} => unreadable = {}
    \* a direct call with new reads readable files; unreadable ones come with add
    /\ (entry # "main" /\ cmd = "new") => unreadable = {}
    \* the number of hashes of a file that cannot be read plays no part
    /\ unreadable # {} => nhash = [f \in FileNames |-> 1]
    /\ continue_on_error \in BOOLEAN
    /\ unreadable = {} => continue_on_error = FALSE
    /\ skip_existing \in BOOLEAN
    /\ cmd # "precompute" => skip_existing = FALSE
    /\ precompute_peaks \in BOOLEAN
    /\ cmd # "precompute" => precompute_peaks = FALSE
    /\ entry # "main" => precompute_peaks = FALSE
    /\ dbsr \in [FileNames -> {NoSR, DefaultSamplerate, OtherSamplerate}]
    /\ cmd \notin {"merge", "newmerge"} => dbsr = [f \in FileNames |-> DefaultSamplerate]
    \* an index recorded at another rate than the analyzer's is given to
    \* add and match
    /\ disk \in StoredDbs \cup {None}
           \cup (IF entry = "main" /\ cmd \in {"add", "match"} /\ ncores = 1
                    /\ unreadable = {} /\ nhash = [f \in FileNames |-> 1]
                 THEN {MismatchedDb} ELSE {})
    \* a precompute run of main may be given the path of an index that exists
    /\ (cmd = "precompute" /\ ~(entry = "main" /\ dbase = DbPath /\ ~skip_existing))
           => disk = None
    /\ pc = IF entry = "main" THEN "start" ELSE entry
    /\ err = "none"
    \* a direct caller of do_cmd_multiproc passes the index it has loaded or
    \* created (none for precompute); main builds its own
    /\ hash_tab \in {None} \cup {HTLoad(d) : d \in StoredDbs}
    /\ entry = "main" => hash_tab = None
    /\ (entry # "main" /\ cmd = "precompute") => hash_tab = None
    /\ (entry # "main" /\ cmd # "precompute") => hash_tab # None
    \* the direct caller passes an empty index with new and one that holds
    \* entries with add
    /\ (entry # "main" /\ cmd = "new") => hash_tab.entries = <<>>
    /\ (entry # "main" /\ cmd = "add") => hash_tab.entries # <<>>
    /\ (entry # "main") => disk = IF hash_tab = None THEN None ELSE HTStored(hash_tab)
    /\ saves = <<>>
    /\ ix = 0
    /\ tothashes = 0
    /\ totaldur = 0
    /\ log = <<>>
    /\ filelists = [c \in Cores |-> <<>>]
    /\ wpc = [c \in Cores |-> "unstarted"]
    /\ wix = [c \in Cores |-> 0]
    /\ wht = [c \in Cores |-> None]
    /\ pipe = [c \in Cores |-> None]
    /\ nsent = [c \in Cores |-> 0]
    /\ core = 0
    /\ hash_tabx = None
    /\ merged = <<>>
    /\ tstate = [p \in Positions |-> "pending"]
    /\ tresult = [p \in Positions |-> Msg("none", "", 0)]
    /\ completed = <<>>
    /\ artifacts \in {{}, {OpfName("a")}}
    /\ cmd # "precompute" => artifacts = {}
    /\ analyzed = 0
    /\ hash_tab0 = hash_tab
    /\ mutations = 0
    /\ executors = IF entry = "do_cmd" THEN {"do_cmd"} ELSE {}
    /\ dbdir \in {"exists", "absent", "blocked"}
    /\ (entry # "main" \/ cmd \notin {"new", "newmerge"}) => dbdir = "exists"
    /\ run = 1
    /\ writes = 0
    /\ outdir_exists \in BOOLEAN
    /\ cmd # "precompute" => outdir_exists = FALSE
    /\ artifacts # {} => outdir_exists = TRUE
    /\ entry # "main" => outdir_exists = (artifacts # {})
    /\ blocking_send \in BOOLEAN
    /\ ~DirectAdd => blocking_send = FALSE
    /\ htsize \in {DefaultSize, OtherSize}
    /\ blocking_send =>
           (cmd = "add" /\ nhash = [f \in FileNames |-> 1] /\ Len(hash_tab.entries) = 1)
    /\ ~(DirectAdd /\ unreadable = {} /\ ~blocking_send) => htsize = DefaultSize
    /\ htsize = OtherSize => (ncores = 2 /\ nhash = [f \in FileNames |-> 1])
    /\ wsize = [c \in Cores |-> NoSize]
    /\ diag = <<>>
    /\ RaceIdle
    /\ ResolverIdle
    /\ OpfIdle

Raise(e) == /\ pc' = "error"
            /\ err' = e

\* ensure_dir (lines 46-55): a missing directory is created; when it cannot
\* be created the exception of os.makedirs is swallowed
ensure_dir(d) == IF d = "absent" THEN "exists" ELSE d

(***************************************************************************)
(* main, up to the choice of the executor (lines 348-399).                 *)
(***************************************************************************)
\* MainSetup that loads the index found at dbase for new and newmerge too
MainSetupLoadsExisting ==
    /\ pc = "start"
    /\ IF cmd \notin Commands
       THEN /\ Raise("UsageError: invalid choice")
            /\ UNCHANGED <<hash_tab, dbdir>>
       ELSE IF cmd # "precompute"
       THEN IF dbase = NoPath
            THEN /\ Raise("ValueError: dbase name must be provided")
                 /\ UNCHANGED <<hash_tab, dbdir>>
            ELSE IF cmd \in {"new", "newmerge"} /\ disk = None
                 THEN /\ dbdir' = ensure_dir(dbdir)
                      /\ hash_tab' = [HTNew EXCEPT !.samplerate =
                                        IF UsesAnalyzer THEN DefaultSamplerate ELSE NoSR]
                      /\ pc' = "dispatch"
                      /\ UNCHANGED err
                 ELSE IF disk = None
                      THEN /\ Raise("IOError: cannot read hash table")
                           /\ UNCHANGED <<hash_tab, dbdir>>
                      ELSE /\ hash_tab' = HTLoad(disk)
                           /\ pc' = "dispatch"
                           /\ UNCHANGED <<err, dbdir>>
       ELSE /\ hash_tab' = None
            /\ pc' = "dispatch"
            /\ UNCHANGED <<err, dbdir>>
    /\ UNCHANGED <<inputs, disk, saves, ix, tothashes, totaldur, log, mpadd, par, fs>>
    /\ hash_tab0' = hash_tab'
    /\ UNCHANGED mutations
    /\ UNCHANGED <<executors, run, writes, outdir_exists>>
    /\ UNCHANGED ext

\* MainSetup without the test that dbase is given (lines 369-370)
MainSetupNoDbaseCheck ==
    /\ pc = "start"
    /\ IF cmd \notin Commands
       THEN /\ Raise("UsageError: invalid choice")
            /\ UNCHANGED <<hash_tab, dbdir>>
       ELSE IF cmd # "precompute"
       THEN IF cmd \in {"new", "newmerge"}
            THEN /\ dbdir' = ensure_dir(dbdir)
                 /\ hash_tab' = [HTNew EXCEPT !.samplerate =
                                   IF UsesAnalyzer THEN DefaultSamplerate ELSE NoSR]
                 /\ pc' = "dispatch"
                 /\ UNCHANGED err
            ELSE IF disk = None
                 THEN /\ Raise("IOError: cannot read hash table")
                      /\ UNCHANGED <<hash_tab, dbdir>>
                 ELSE /\ hash_tab' = HTLoad(disk)
                      /\ pc' = "dispatch"
                      /\ UNCHANGED <<err, dbdir>>
       ELSE /\ hash_tab' = None
            /\ pc' = "dispatch"
            /\ UNCHANGED <<err, dbdir>>
    /\ UNCHANGED <<inputs, disk, saves, ix, tothashes, totaldur, log, mpadd, par, fs>>
    /\ hash_tab0' = hash_tab'
    /\ UNCHANGED mutations
    /\ UNCHANGED <<executors, run, writes, outdir_exists>>
    /\ UNCHANGED ext

\* MainSetup that loads the index for precompute too when a path is given
MainSetupPrecomputeLoads ==
    /\ pc = "start"
    /\ IF cmd \notin Commands
       THEN /\ Raise("UsageError: invalid choice")
            /\ UNCHANGED <<hash_tab, dbdir>>
       ELSE IF cmd # "precompute"
       THEN IF dbase = NoPath
            THEN /\ Raise("ValueError: dbase name must be provided")
                 /\ UNCHANGED <<hash_tab, dbdir>>
            ELSE IF cmd \in {"new", "newmerge"}
                 THEN /\ dbdir' = ensure_dir(dbdir)
                      /\ hash_tab' = [HTNew EXCEPT !.samplerate =
                                        IF UsesAnalyzer THEN DefaultSamplerate ELSE NoSR]
                      /\ pc' = "dispatch"
                      /\ UNCHANGED err
                 ELSE IF disk = None
                      THEN /\ Raise("IOError: cannot read hash table")
                           /\ UNCHANGED <<hash_tab, dbdir>>
                      ELSE /\ hash_tab' = HTLoad(disk)
                           /\ pc' = "dispatch"
                           /\ UNCHANGED <<err, dbdir>>
       ELSE /\ hash_tab' = IF dbase # NoPath /\ disk # None THEN HTLoad(disk) ELSE None
            /\ pc' = "dispatch"
            /\ UNCHANGED <<err, dbdir>>
    /\ UNCHANGED <<inputs, disk, saves, ix, tothashes, totaldur, log, mpadd, par, fs>>
    /\ hash_tab0' = hash_tab'
    /\ UNCHANGED mutations
    /\ UNCHANGED <<executors, run, writes, outdir_exists>>
    /\ UNCHANGED ext

\* MainSetup that overrides the stored sample rate with the analyzer's
MainSetupOverridesRate ==
    /\ pc = "start"
    /\ IF cmd \notin Commands
       THEN /\ Raise("UsageError: invalid choice")
            /\ UNCHANGED <<hash_tab, dbdir>>
       ELSE IF cmd # "precompute"
       THEN IF dbase = NoPath
            THEN /\ Raise("ValueError: dbase name must be provided")
                 /\ UNCHANGED <<hash_tab, dbdir>>
            ELSE IF cmd \in {"new", "newmerge"}
                 THEN /\ dbdir' = ensure_dir(dbdir)
                      /\ hash_tab' = [HTNew EXCEPT !.samplerate =
                                        IF UsesAnalyzer THEN DefaultSamplerate ELSE NoSR]
                      /\ pc' = "dispatch"
                      /\ UNCHANGED err
                 ELSE IF disk = None
                      THEN /\ Raise("IOError: cannot read hash table")
                           /\ UNCHANGED <<hash_tab, dbdir>>
                      ELSE /\ hash_tab' = IF UsesAnalyzer /\ disk.samplerate # NoSR
                                           THEN [HTLoad(disk) EXCEPT !.samplerate = target_sr]
                                           ELSE HTLoad(disk)
                           /\ pc' = "dispatch"
                           /\ UNCHANGED <<err, dbdir>>
       ELSE /\ hash_tab' = None
            /\ pc' = "dispatch"
            /\ UNCHANGED <<err, dbdir>>
    /\ UNCHANGED <<inputs, disk, saves, ix, tothashes, totaldur, log, mpadd, par, fs>>
    /\ hash_tab0' = hash_tab'
    /\ UNCHANGED mutations
    \* lines 387-389: a stored rate other than the analyzer's is only
    \* reported
    /\ diag' = IF /\ pc' = "dispatch" /\ cmd \notin {"precompute", "new", "newmerge"}
                  /\ UsesAnalyzer
                  /\ hash_tab'.samplerate # NoSR
                  /\ hash_tab'.samplerate # target_sr
               THEN Append(diag, "db samplerate overridden")
               ELSE diag
    /\ UNCHANGED <<executors, run, writes, outdir_exists>>
    /\ UNCHANGED <<blocking_send, htsize, wsize, sub>>

MainSetup ==
    /\ pc = "start"
    /\ IF cmd \notin Commands
       THEN /\ Raise("UsageError: invalid choice")
            /\ UNCHANGED <<hash_tab, dbdir>>
       ELSE IF cmd # "precompute"
       THEN IF dbase = NoPath
            THEN /\ Raise("ValueError: dbase name must be provided")
                 /\ UNCHANGED <<hash_tab, dbdir>>
            ELSE IF cmd \in {"new", "newmerge"}
                 THEN /\ dbdir' = ensure_dir(dbdir)
                      /\ hash_tab' = [HTNew EXCEPT !.samplerate =
                                        IF UsesAnalyzer THEN DefaultSamplerate ELSE NoSR]
                      /\ pc' = "dispatch"
                      /\ UNCHANGED err
                 ELSE IF disk = None
                      THEN /\ Raise("IOError: cannot read hash table")
                           /\ UNCHANGED <<hash_tab, dbdir>>
                      ELSE /\ hash_tab' = HTLoad(disk)
                           /\ pc' = "dispatch"
                           /\ UNCHANGED <<err, dbdir>>
       ELSE /\ hash_tab' = None
            /\ pc' = "dispatch"
            /\ UNCHANGED <<err, dbdir>>
    /\ UNCHANGED <<inputs, disk, saves, ix, tothashes, totaldur, log, mpadd, par, fs>>
    /\ hash_tab0' = hash_tab'
    /\ UNCHANGED mutations
    \* lines 387-389: a stored rate other than the analyzer's is only
    \* reported
    /\ diag' = IF /\ pc' = "dispatch" /\ cmd \notin {"precompute", "new", "newmerge"}
                  /\ UsesAnalyzer
                  /\ hash_tab'.samplerate # NoSR
                  /\ hash_tab'.samplerate # target_sr
               THEN Append(diag, "db samplerate overridden")
               ELSE diag
    /\ UNCHANGED <<executors, run, writes, outdir_exists>>
    /\ UNCHANGED <<blocking_send, htsize, wsize, sub>>

(***************************************************************************)
(* main, lines 405-418: the executor is chosen.  The call of               *)
(* do_cmd_multiproc passes seven positional arguments where the function   *)
(* takes eight (report): the call raises TypeError before the body runs.   *)
(***************************************************************************)
MainDispatch ==
    /\ pc = "dispatch"
    /\ IF ncores > 1 /\ cmd \notin SingleOnlyCommands
       THEN Raise("TypeError: do_cmd_multiproc() missing 1 required positional argument: 'report'")
       ELSE /\ pc' = "do_cmd"
            /\ UNCHANGED err
    /\ executors' = IF pc' = "do_cmd" THEN executors \cup {"do_cmd"} ELSE executors
    /\ UNCHANGED <<inputs, hash_tab, disk, saves, ix, tothashes, totaldur, log, mpadd, par, fs>>
    /\ UNCHANGED hist
    /\ UNCHANGED <<dbdir, run, writes, outdir_exists>>
    /\ UNCHANGED ext

ExecutorReturns == /\ pc' = IF entry = "main" THEN "executor_returned" ELSE "returned"
                   /\ UNCHANGED err

(***************************************************************************)
(* do_cmd (lines 139-188), one action per command; a loop body is one      *)
(* step.                                                                   *)
(***************************************************************************)
\* DoCmdMerge that leaves a primary without sample rate as it is (line 151)
DoCmdMergeNoAdopt ==
    /\ pc = "do_cmd"
    /\ cmd \in {"merge", "newmerge"}
    /\ IF ix < Len(files)
       THEN LET hash_tab2 == HTLoad(OtherDb(files[ix + 1]))
            IN  IF hash_tab2.samplerate = NoSR
                THEN /\ Raise("KeyError: 'samplerate'")
                     /\ UNCHANGED <<hash_tab, ix>>
                ELSE IF hash_tab.samplerate # NoSR /\ hash_tab.samplerate # hash_tab2.samplerate
                     THEN /\ Raise("AssertionError")
                          /\ UNCHANGED <<hash_tab, ix>>
                     ELSE /\ hash_tab' = HTMerge(hash_tab, hash_tab2)
                          /\ ix' = ix + 1
                          /\ UNCHANGED <<pc, err>>
       ELSE /\ ExecutorReturns
            /\ UNCHANGED <<hash_tab, ix>>
    /\ UNCHANGED <<inputs, disk, saves, tothashes, totaldur, log, mpadd, par, fs>>
    /\ mutations' = IF ix' # ix THEN mutations + 1 ELSE mutations
    /\ UNCHANGED hash_tab0
    /\ UNCHANGED aux
    /\ UNCHANGED ext

\* DoCmdMerge without the comparison of the sample rates (line 148)
DoCmdMergeNoCheck ==
    /\ pc = "do_cmd"
    /\ cmd \in {"merge", "newmerge"}
    /\ IF ix < Len(files)
       THEN LET hash_tab2 == HTLoad(OtherDb(files[ix + 1]))
            IN  IF hash_tab2.samplerate = NoSR
                THEN /\ Raise("KeyError: 'samplerate'")
                     /\ UNCHANGED <<hash_tab, ix>>
                ELSE /\ hash_tab' = HTMerge([hash_tab EXCEPT !.samplerate =
                                               IF hash_tab.samplerate # NoSR
                                               THEN hash_tab.samplerate
                                               ELSE hash_tab2.samplerate],
                                            hash_tab2)
                     /\ ix' = ix + 1
                     /\ UNCHANGED <<pc, err>>
       ELSE /\ ExecutorReturns
            /\ UNCHANGED <<hash_tab, ix>>
    /\ UNCHANGED <<inputs, disk, saves, tothashes, totaldur, log, mpadd, par, fs>>
    /\ mutations' = IF ix' # ix THEN mutations + 1 ELSE mutations
    /\ UNCHANGED hash_tab0
    /\ UNCHANGED aux
    /\ UNCHANGED ext

DoCmdMerge ==
    /\ pc = "do_cmd"
    /\ cmd \in {"merge", "newmerge"}
    /\ IF ix < Len(files)
       THEN LET hash_tab2 == HTLoad(OtherDb(files[ix + 1]))
            IN  IF hash_tab2.samplerate = NoSR
                THEN /\ Raise("KeyError: 'samplerate'")
                     /\ UNCHANGED <<hash_tab, ix>>
                ELSE IF hash_tab.samplerate # NoSR /\ hash_tab.samplerate # hash_tab2.samplerate
                     THEN /\ Raise("AssertionError")
                          /\ UNCHANGED <<hash_tab, ix>>
                     ELSE /\ hash_tab' = HTMerge([hash_tab EXCEPT !.samplerate = hash_tab2.samplerate],
                                                 hash_tab2)
                          /\ ix' = ix + 1
                          /\ UNCHANGED <<pc, err>>
       ELSE /\ ExecutorReturns
            /\ UNCHANGED <<hash_tab, ix>>
    /\ UNCHANGED <<inputs, disk, saves, tothashes, totaldur, log, mpadd, par, fs>>
    /\ mutations' = IF ix' # ix THEN mutations + 1 ELSE mutations
    /\ UNCHANGED hash_tab0
    /\ UNCHANGED aux
    /\ UNCHANGED ext

\* file_precompute (lines 62-119) run to completion for file f:
\* the message it returns
PrecomputeMsg(f) ==
    IF skip_existing /\ OpfName(f) \in artifacts THEN Msg("skipping", f, 0)
    ELSE IF Hashes(f) = 0 THEN Msg("zero length", f, 0)
    ELSE Msg("wrote", f, Hashes(f))

\* DoCmdPrecompute that ensures the output directory before it tests
\* whether the analysis is empty (lines 99-103)
DoCmdPrecomputeDirFirst ==
    /\ pc = "do_cmd"
    /\ cmd = "precompute"
    /\ IF ix < Len(files)
       THEN LET f == files[ix + 1]
                skip == skip_existing /\ OpfName(f) \in artifacts
            IN  IF ~skip /\ AnalysisFails(f)
                THEN /\ Raise("analysis error")
                     /\ analyzed' = analyzed + 1
                     /\ UNCHANGED <<ix, log, artifacts, writes, outdir_exists>>
                ELSE /\ log' = Append(log, PrecomputeMsg(f))
                     /\ analyzed' = IF skip THEN analyzed ELSE analyzed + 1
                     /\ outdir_exists' = (outdir_exists \/ ~skip)
                     /\ IF ~skip /\ Hashes(f) > 0
                        THEN /\ artifacts' = artifacts \cup {OpfName(f)}
                             /\ writes' = writes + 1
                        ELSE UNCHANGED <<artifacts, writes>>
                     /\ ix' = ix + 1
                     /\ UNCHANGED <<pc, err>>
       ELSE /\ ExecutorReturns
            /\ UNCHANGED <<ix, log, artifacts, analyzed, writes, outdir_exists>>
    /\ UNCHANGED <<inputs, hash_tab, disk, saves, tothashes, totaldur, mpadd, par>>
    /\ UNCHANGED hist
    /\ UNCHANGED <<executors, dbdir, run>>
    /\ UNCHANGED ext

\* DoCmdPrecompute that never tests whether the output exists (line 86)
DoCmdPrecomputeNoSkip ==
    /\ pc = "do_cmd"
    /\ cmd = "precompute"
    /\ IF ix < Len(files)
       THEN LET f == files[ix + 1]
            IN  IF AnalysisFails(f)
                THEN /\ Raise("analysis error")
                     /\ analyzed' = analyzed + 1
                     /\ UNCHANGED <<ix, log, artifacts, writes, outdir_exists>>
                ELSE /\ log' = Append(log, IF Hashes(f) = 0
                                           THEN Msg("zero length", f, 0)
                                           ELSE Msg("wrote", f, Hashes(f)))
                     /\ analyzed' = analyzed + 1
                     /\ IF Hashes(f) > 0
                        THEN /\ outdir_exists' = TRUE
                             /\ artifacts' = artifacts \cup {OpfName(f)}
                             /\ writes' = writes + 1
                        ELSE UNCHANGED <<artifacts, writes, outdir_exists>>
                     /\ ix' = ix + 1
                     /\ UNCHANGED <<pc, err>>
       ELSE /\ ExecutorReturns
            /\ UNCHANGED <<ix, log, artifacts, analyzed, writes, outdir_exists>>
    /\ UNCHANGED <<inputs, hash_tab, disk, saves, tothashes, totaldur, mpadd, par>>
    /\ UNCHANGED hist
    /\ UNCHANGED <<executors, dbdir, run>>
    /\ UNCHANGED ext

DoCmdPrecompute ==
    /\ pc = "do_cmd"
    /\ cmd = "precompute"
    /\ IF ix < Len(files)
       THEN LET f == files[ix + 1]
                skip == skip_existing /\ OpfName(f) \in artifacts
            IN  IF ~skip /\ AnalysisFails(f)
                THEN /\ Raise("analysis error")
                     /\ analyzed' = analyzed + 1
                     /\ UNCHANGED <<ix, log, artifacts, writes, outdir_exists>>
                ELSE /\ log' = Append(log, PrecomputeMsg(f))
                     /\ analyzed' = IF skip THEN analyzed ELSE analyzed + 1
                     /\ IF ~skip /\ Hashes(f) > 0
                        THEN /\ outdir_exists' = TRUE
                             /\ artifacts' = artifacts \cup {OpfName(f)}
                             /\ writes' = writes + 1
                        ELSE UNCHANGED <<artifacts, writes, outdir_exists>>
                     /\ ix' = ix + 1
                     /\ UNCHANGED <<pc, err>>
       ELSE /\ ExecutorReturns
            /\ UNCHANGED <<ix, log, artifacts, analyzed, writes, outdir_exists>>
    /\ UNCHANGED <<inputs, hash_tab, disk, saves, tothashes, totaldur, mpadd, par>>
    /\ UNCHANGED hist
    /\ UNCHANGED <<executors, dbdir, run>>
    /\ UNCHANGED ext

DoCmdMatch ==
    /\ pc = "do_cmd"
    /\ cmd = "match"
    /\ IF ix < Len(files)
       THEN LET f == files[ix + 1]
            IN  /\ analyzed' = analyzed + 1
                /\ IF AnalysisFails(f)
                   THEN /\ Raise("analysis error")
                        /\ UNCHANGED <<ix, log>>
                   ELSE /\ log' = Append(log, Msg("match", f, ix))
                        /\ ix' = ix + 1
                        /\ UNCHANGED <<pc, err>>
       ELSE /\ ExecutorReturns
            /\ UNCHANGED <<ix, log, analyzed>>
    /\ UNCHANGED <<inputs, hash_tab, disk, saves, tothashes, totaldur, mpadd, par, artifacts>>
    /\ UNCHANGED hist
    /\ UNCHANGED aux
    /\ UNCHANGED ext

DoCmdAdd ==
    /\ pc = "do_cmd"
    /\ cmd \in {"new", "add"}
    /\ IF ix < Len(files)
       THEN LET f == files[ix + 1]
            IN  /\ analyzed' = analyzed + 1
                /\ log' = Append(log, Msg("ingesting", f, ix))
                /\ IF AnalysisFails(f)
                   THEN /\ Raise("analysis error")
                        /\ UNCHANGED <<hash_tab, ix, tothashes, totaldur>>
                   ELSE /\ hash_tab' = HTStore(hash_tab, f, Hashes(f))
                        /\ tothashes' = tothashes + Hashes(f)
                        /\ totaldur' = totaldur + Dur(f)
                        /\ ix' = ix + 1
                        /\ UNCHANGED <<pc, err>>
       ELSE /\ IF totaldur = 0
               THEN /\ Raise("ZeroDivisionError")
                    /\ UNCHANGED log
               ELSE /\ log' = Append(log, Msg("Added", "", tothashes))
                    /\ ExecutorReturns
            /\ UNCHANGED <<hash_tab, ix, tothashes, totaldur, analyzed>>
    /\ UNCHANGED <<inputs, disk, saves, mpadd, par, artifacts>>
    /\ mutations' = IF ix' # ix THEN mutations + 1 ELSE mutations
    /\ UNCHANGED hash_tab0
    /\ UNCHANGED aux
    /\ UNCHANGED ext

\* DoCmdRemove that marks the index modified whether or not the name was in it
DoCmdRemoveMarksDirty ==
    /\ pc = "do_cmd"
    /\ cmd = "remove"
    /\ IF ix < Len(files)
       THEN /\ hash_tab' = [HTRemove(hash_tab, files[ix + 1]) EXCEPT !.dirty = TRUE]
            /\ ix' = ix + 1
            /\ UNCHANGED <<pc, err>>
       ELSE /\ ExecutorReturns
            /\ UNCHANGED <<hash_tab, ix>>
    /\ UNCHANGED <<inputs, disk, saves, tothashes, totaldur, log, mpadd, par, fs>>
    /\ mutations' = IF hash_tab' # hash_tab THEN mutations + 1 ELSE mutations
    /\ UNCHANGED hash_tab0
    /\ UNCHANGED aux
    /\ UNCHANGED ext

\* do_cmd, lines 179-182: hash_tab.remove(filename) for each name
DoCmdRemove ==
    /\ pc = "do_cmd"
    /\ cmd = "remove"
    /\ IF ix < Len(files)
       THEN /\ hash_tab' = HTRemove(hash_tab, files[ix + 1])
            /\ ix' = ix + 1
            /\ UNCHANGED <<pc, err>>
       ELSE /\ ExecutorReturns
            /\ UNCHANGED <<hash_tab, ix>>
    /\ UNCHANGED <<inputs, disk, saves, tothashes, totaldur, log, mpadd, par, fs>>
    /\ mutations' = IF hash_tab' # hash_tab THEN mutations + 1 ELSE mutations
    /\ UNCHANGED hash_tab0
    /\ UNCHANGED aux
    /\ UNCHANGED ext

DoCmdList ==
    /\ pc = "do_cmd"
    /\ cmd = "list"
    /\ log' = log \o [i \in 1..Len(hash_tab.entries) |-> Msg("list", hash_tab.entries[i][1], 0)]
    /\ ExecutorReturns
    /\ UNCHANGED <<inputs, hash_tab, disk, saves, ix, tothashes, totaldur, mpadd, par, fs>>
    /\ UNCHANGED hist
    /\ UNCHANGED aux
    /\ UNCHANGED ext

\* DoCmdUnrecognized that returns instead of raising
DoCmdUnrecognizedIgnored ==
    /\ pc = "do_cmd"
    /\ cmd \notin Commands
    /\ ExecutorReturns
    /\ UNCHANGED <<inputs, hash_tab, disk, saves, ix, tothashes, totaldur, log, mpadd, par, fs>>
    /\ UNCHANGED hist
    /\ UNCHANGED aux
    /\ UNCHANGED ext

\* the final else of do_cmd (lines 187-188)
DoCmdUnrecognized ==
    /\ pc = "do_cmd"
    /\ cmd \notin Commands
    /\ Raise("ValueError: unrecognized command")
    /\ UNCHANGED <<inputs, hash_tab, disk, saves, ix, tothashes, totaldur, log, mpadd, par, fs>>
    /\ UNCHANGED hist
    /\ UNCHANGED aux
    /\ UNCHANGED ext

(***************************************************************************)
(* do_cmd_multiproc (lines 235-268): the branch on the command.            *)
(***************************************************************************)
DoCmdMultiproc ==
    /\ pc = "do_cmd_multiproc"
    /\ IF cmd \in {"precompute", "match"}
       THEN /\ pc' = "parallel"
            /\ UNCHANGED err
       ELSE IF cmd \in {"new", "add"}
            THEN /\ pc' = "multiproc_add"
                 /\ UNCHANGED err
            ELSE Raise("ValueError: unrecognized multiproc command")
    /\ executors' = executors \cup {"do_cmd_multiproc"}
    /\ UNCHANGED <<inputs, hash_tab, disk, saves, ix, tothashes, totaldur, log, mpadd, par, fs>>
    /\ UNCHANGED hist
    /\ UNCHANGED <<dbdir, run, writes, outdir_exists>>
    /\ UNCHANGED ext

(***************************************************************************)
(* joblib.Parallel(n_jobs=ncores) over the filename iterator (lines        *)
(* 241-244 and 251-257): tasks are dispatched in iterator order, at most   *)
(* ncores run at a time, they finish in any order, and the results come    *)
(* back as a list in dispatch order.                                       *)
(***************************************************************************)
Running == {p \in Positions : tstate[p] = "running"}

\* file_precompute / matcher_file_match_to_msgs start on the next file; a
\* precompute task first tests whether its output exists (line 86)
TaskStart ==
    /\ pc = "parallel"
    /\ ix < Len(files)
    /\ Cardinality(Running) < ncores
    /\ LET p == ix + 1
           f == files[p]
       IN  IF cmd = "precompute" /\ skip_existing /\ OpfName(f) \in artifacts
           THEN /\ tstate' = [tstate EXCEPT ![p] = "done"]
                /\ tresult' = [tresult EXCEPT ![p] = Msg("skipping", f, 0)]
                /\ completed' = Append(completed, p)
           ELSE /\ tstate' = [tstate EXCEPT ![p] = "running"]
                /\ UNCHANGED <<tresult, completed>>
    /\ ix' = ix + 1
    /\ UNCHANGED <<inputs, pc, err, hash_tab, disk, saves, tothashes, totaldur, log, mpadd, fs>>
    /\ UNCHANGED hist
    /\ UNCHANGED aux
    /\ UNCHANGED ext

\* the message of a task that has analysed file f
TaskMsg(f) ==
    IF cmd = "match" THEN Msg("match", f, NoNumber)
    ELSE IF Hashes(f) = 0 THEN Msg("zero length", f, 0)
    ELSE Msg("wrote", f, Hashes(f))

\* a running task analyses its file and returns (lines 89-108, 230-232)
TaskFinish(p) ==
    /\ tstate[p] = "running"
    /\ analyzed' = analyzed + 1
    /\ IF AnalysisFails(files[p])
       THEN /\ tstate' = [tstate EXCEPT ![p] = "failed"]
            /\ UNCHANGED <<tresult, completed, artifacts, writes, outdir_exists>>
       ELSE /\ tstate' = [tstate EXCEPT ![p] = "done"]
            /\ tresult' = [tresult EXCEPT ![p] = TaskMsg(files[p])]
            /\ completed' = Append(completed, p)
            /\ IF cmd = "precompute" /\ Hashes(files[p]) > 0
               THEN /\ outdir_exists' = TRUE
                    /\ artifacts' = artifacts \cup {OpfName(files[p])}
                    /\ writes' = writes + 1
               ELSE UNCHANGED <<artifacts, writes, outdir_exists>>
    /\ UNCHANGED <<inputs, orch, mpadd>>
    /\ UNCHANGED hist
    /\ UNCHANGED <<executors, dbdir, run>>
    /\ UNCHANGED ext

\* an exception in a task is raised again in the caller of Parallel
ParallelFails ==
    /\ pc = "parallel"
    /\ \E p \in Positions : tstate[p] = "failed"
    /\ Raise("analysis error")
    /\ UNCHANGED <<inputs, hash_tab, disk, saves, ix, tothashes, totaldur, log, mpadd, par, fs>>
    /\ UNCHANGED hist
    /\ UNCHANGED aux
    /\ UNCHANGED ext

\* Parallel returns msgslist once every task is done
ParallelReturns ==
    /\ pc = "parallel"
    /\ \A p \in Positions : tstate[p] = "done"
    /\ pc' = "log_msgslist"
    /\ UNCHANGED <<inputs, err, hash_tab, disk, saves, ix, tothashes, totaldur, log, mpadd, par, fs>>
    /\ UNCHANGED hist
    /\ UNCHANGED aux
    /\ UNCHANGED ext

\* LogMsgs over the results in the order in which the tasks completed
LogMsgsAsCompleted ==
    /\ pc = "log_msgslist"
    /\ IF Len(log) < Len(files)
       THEN /\ log' = Append(log, tresult[completed[Len(log) + 1]])
            /\ UNCHANGED <<pc, err>>
       ELSE /\ ExecutorReturns
            /\ UNCHANGED log
    /\ UNCHANGED <<inputs, hash_tab, disk, saves, ix, tothashes, totaldur, mpadd, par, fs>>
    /\ UNCHANGED hist
    /\ UNCHANGED aux
    /\ UNCHANGED ext

\* for msgs in msgslist: logger.trace(msgs) (lines 246-247, 258-259)
LogMsgs ==
    /\ pc = "log_msgslist"
    /\ IF Len(log) < Len(files)
       THEN /\ log' = Append(log, tresult[Len(log) + 1])
            /\ UNCHANGED <<pc, err>>
       ELSE /\ ExecutorReturns
            /\ UNCHANGED log
    /\ UNCHANGED <<inputs, hash_tab, disk, saves, ix, tothashes, totaldur, mpadd, par, fs>>
    /\ UNCHANGED hist
    /\ UNCHANGED aux
    /\ UNCHANGED ext

(***************************************************************************)
(* multiproc_add (lines 191-227).                                          *)
(***************************************************************************)
\* Partition with the partition index off by one
PartitionShifted ==
    /\ pc = "multiproc_add"
    /\ IF ix < Len(files)
       THEN /\ filelists' = [filelists EXCEPT ![(ix + 1) % ncores] = Append(@, files[ix + 1])]
            /\ ix' = ix + 1
            /\ UNCHANGED pc
       ELSE /\ pc' = "launch"
            /\ UNCHANGED <<filelists, ix>>
    /\ UNCHANGED <<inputs, err, hash_tab, disk, saves, tothashes, totaldur, log,
                   wpc, wix, wht, pipe, nsent, core, hash_tabx, merged, par, fs>>
    /\ UNCHANGED hist
    /\ UNCHANGED aux
    /\ UNCHANGED ext

\* lines 203-206: unpack all the files into ncores lists
Partition ==
    /\ pc = "multiproc_add"
    /\ IF ix < Len(files)
       THEN /\ filelists' = [filelists EXCEPT ![ix % ncores] = Append(@, files[ix + 1])]
            /\ ix' = ix + 1
            /\ UNCHANGED pc
       ELSE /\ pc' = "launch"
            /\ UNCHANGED <<filelists, ix>>
    /\ UNCHANGED <<inputs, err, hash_tab, disk, saves, tothashes, totaldur, log,
                   wpc, wix, wht, pipe, nsent, core, hash_tabx, merged, par, fs>>
    /\ UNCHANGED hist
    /\ UNCHANGED aux
    /\ UNCHANGED ext

\* lines 208-216: one pipe and one process per core; the process starts in
\* make_ht_from_list with a new, empty hash table (line 127)
Launch ==
    /\ pc = "launch"
    /\ IF core < ncores
       THEN /\ wpc' = [wpc EXCEPT ![core] = "running"]
            /\ wht' = [wht EXCEPT ![core] = HTNew]
            /\ core' = core + 1
            /\ UNCHANGED pc
       ELSE /\ pc' = "recv"
            /\ core' = 0
            /\ UNCHANGED <<wpc, wht>>
    /\ UNCHANGED <<inputs, err, hash_tab, disk, saves, ix, tothashes, totaldur, log,
                   filelists, wix, pipe, nsent, hash_tabx, merged, par, fs>>
    /\ UNCHANGED hist
    /\ UNCHANGED aux
    /\ wsize' = IF core < ncores
               THEN [wsize EXCEPT ![core] = make_ht_args]
               ELSE wsize
    /\ UNCHANGED <<blocking_send, htsize, diag, sub>>

\* WorkerStore that stores into the primary index as well
WorkerStoreShared(k) ==
    /\ wpc[k] = "running"
    /\ wix[k] < Len(filelists[k])
    /\ analyzed' = analyzed + 1
    /\ LET f == filelists[k][wix[k] + 1]
       IN  IF AnalysisFails(f)
           THEN /\ wpc' = [wpc EXCEPT ![k] = "died"]
                /\ UNCHANGED <<wht, wix, hash_tab>>
           ELSE /\ wht' = [wht EXCEPT ![k] = HTStore(@, f, Hashes(f))]
                /\ hash_tab' = HTStore(hash_tab, f, Hashes(f))
                /\ wix' = [wix EXCEPT ![k] = @ + 1]
                /\ UNCHANGED wpc
    /\ UNCHANGED <<inputs, pc, err, disk, saves, ix, tothashes, totaldur, log,
                   filelists, pipe, nsent, core, hash_tabx, merged, par, artifacts>>
    /\ UNCHANGED hist
    /\ UNCHANGED aux
    /\ UNCHANGED ext

\* make_ht_from_list, lines 129-131: the next file of the partition is
\* analysed and stored; an analysis error ends the process
WorkerStore(k) ==
    /\ wpc[k] = "running"
    /\ wix[k] < Len(filelists[k])
    /\ analyzed' = analyzed + 1
    /\ LET f == filelists[k][wix[k] + 1]
       IN  IF AnalysisFails(f)
           THEN /\ wpc' = [wpc EXCEPT ![k] = "died"]
                /\ UNCHANGED <<wht, wix>>
           ELSE /\ wht' = [wht EXCEPT ![k] = HTStore(@, f, Hashes(f))]
                /\ wix' = [wix EXCEPT ![k] = @ + 1]
                /\ UNCHANGED wpc
    /\ UNCHANGED <<inputs, orch, filelists, pipe, nsent, core, hash_tabx, merged, par, artifacts>>
    /\ UNCHANGED hist
    /\ UNCHANGED aux
    /\ UNCHANGED ext

\* WorkerSend inside the loop: the table is sent after every file
WorkerSendEarly(k) ==
    /\ wpc[k] = "running"
    /\ wix[k] > 0 \/ wix[k] = Len(filelists[k])
    /\ pipe[k] = None
    /\ pipe' = [pipe EXCEPT ![k] = wht[k]]
    /\ nsent' = [nsent EXCEPT ![k] = @ + 1]
    /\ wpc' = [wpc EXCEPT ![k] = IF wix[k] = Len(filelists[k]) THEN "sent" ELSE "running"]
    /\ UNCHANGED <<inputs, orch, filelists, wix, wht, core, hash_tabx, merged, par, fs>>
    /\ UNCHANGED hist
    /\ UNCHANGED aux
    /\ UNCHANGED ext

\* WorkerSend in which the worker also saves its table
WorkerSendAndSave(k) ==
    /\ wpc[k] = "running"
    /\ wix[k] = Len(filelists[k])
    /\ pipe' = [pipe EXCEPT ![k] = wht[k]]
    /\ nsent' = [nsent EXCEPT ![k] = @ + 1]
    /\ wpc' = [wpc EXCEPT ![k] = "sent"]
    /\ saves' = Append(saves, <<"partial", dbase>>)
    /\ disk' = HTStored(wht[k])
    /\ UNCHANGED <<inputs, pc, err, hash_tab, ix, tothashes, totaldur, log,
                   filelists, wix, wht, core, hash_tabx, merged, par, fs>>
    /\ UNCHANGED hist
    /\ UNCHANGED aux
    /\ UNCHANGED ext

\* make_ht_from_list, lines 133-134: pipe.send(ht) after the loop
WorkerSend(k) ==
    /\ wpc[k] = "running"
    /\ wix[k] = Len(filelists[k])
    /\ pipe' = [pipe EXCEPT ![k] = wht[k]]
    /\ nsent' = [nsent EXCEPT ![k] = @ + 1]
    /\ wpc' = [wpc EXCEPT ![k] = "sent"]
    /\ UNCHANGED <<inputs, orch, filelists, wix, wht, core, hash_tabx, merged, par, fs>>
    /\ UNCHANGED hist
    /\ UNCHANGED aux
    /\ UNCHANGED ext

\* the worker process ends when make_ht_from_list has returned: pipe.send
\* (line 134) returns at once when the pipe buffers the partial index, and
\* only when the orchestrator has received it otherwise
WorkerExit(k) ==
    /\ wpc[k] = "sent"
    /\ blocking_send => pipe[k] = None
    /\ wpc' = [wpc EXCEPT ![k] = "exited"]
    /\ UNCHANGED <<inputs, orch, filelists, wix, wht, pipe, nsent, core, hash_tabx, merged, par, fs>>
    /\ UNCHANGED hist
    /\ UNCHANGED aux
    /\ UNCHANGED ext

\* Recv that takes the partials in reverse launch order
RecvReversed ==
    /\ pc = "recv"
    /\ IF core < ncores
       THEN /\ pipe[ncores - 1 - core] # None
            /\ hash_tabx' = pipe[ncores - 1 - core]
            /\ pipe' = [pipe EXCEPT ![ncores - 1 - core] = None]
            /\ log' = Append(log, Msg("hash_table", "", core))
            /\ pc' = "merge"
            /\ UNCHANGED err
       ELSE /\ ExecutorReturns
            /\ UNCHANGED <<hash_tabx, pipe, log>>
    /\ UNCHANGED <<inputs, hash_tab, disk, saves, ix, tothashes, totaldur,
                   filelists, wpc, wix, wht, nsent, core, merged, par, fs>>
    /\ UNCHANGED hist
    /\ UNCHANGED aux
    /\ UNCHANGED ext

\* Recv that gives up on a worker process that has ended without sending
RecvSkipsDead ==
    /\ pc = "recv"
    /\ IF core < ncores
       THEN IF wpc[core] = "died"
            THEN /\ core' = core + 1
                 /\ UNCHANGED <<hash_tabx, pipe, log, pc, err>>
            ELSE /\ pipe[core] # None
                 /\ hash_tabx' = pipe[core]
                 /\ pipe' = [pipe EXCEPT ![core] = None]
                 /\ log' = Append(log, Msg("hash_table", "", core))
                 /\ pc' = "merge"
                 /\ UNCHANGED <<err, core>>
       ELSE /\ ExecutorReturns
            /\ UNCHANGED <<hash_tabx, pipe, log, core>>
    /\ UNCHANGED <<inputs, hash_tab, disk, saves, ix, tothashes, totaldur,
                   filelists, wpc, wix, wht, nsent, merged, par, fs>>
    /\ UNCHANGED hist
    /\ UNCHANGED aux
    /\ UNCHANGED ext

\* Recv that waits for the worker process to end before it reads the pipe
RecvAfterExit ==
    /\ pc = "recv"
    /\ IF core < ncores
       THEN /\ wpc[core] = "exited"
            /\ pipe[core] # None
            /\ hash_tabx' = pipe[core]
            /\ pipe' = [pipe EXCEPT ![core] = None]
            /\ log' = Append(log, Msg("hash_table", "", core))
            /\ pc' = "merge"
            /\ UNCHANGED err
       ELSE /\ ExecutorReturns
            /\ UNCHANGED <<hash_tabx, pipe, log>>
    /\ UNCHANGED <<inputs, hash_tab, disk, saves, ix, tothashes, totaldur,
                   filelists, wpc, wix, wht, nsent, core, merged, par, fs>>
    /\ UNCHANGED hist
    /\ UNCHANGED aux
    /\ UNCHANGED ext

\* lines 218-223: rx[core].recv() blocks until worker `core' has sent
Recv ==
    /\ pc = "recv"
    /\ IF core < ncores
       THEN /\ pipe[core] # None
            /\ hash_tabx' = pipe[core]
            /\ pipe' = [pipe EXCEPT ![core] = None]
            /\ log' = Append(log, Msg("hash_table", "", core))
            /\ pc' = "merge"
            /\ UNCHANGED err
       ELSE /\ ExecutorReturns
            /\ UNCHANGED <<hash_tabx, pipe, log>>
    /\ UNCHANGED <<inputs, hash_tab, disk, saves, ix, tothashes, totaldur,
                   filelists, wpc, wix, wht, nsent, core, merged, par, fs>>
    /\ UNCHANGED hist
    /\ UNCHANGED aux
    /\ UNCHANGED ext

\* line 225: hash_tab.merge(hash_tabx)
Merge ==
    /\ pc = "merge"
    /\ hash_tab' = HTMerge(hash_tab, hash_tabx)
    /\ merged' = Append(merged, core)
    /\ pc' = "join"
    /\ UNCHANGED <<inputs, err, disk, saves, ix, tothashes, totaldur, log,
                   filelists, wpc, wix, wht, pipe, nsent, core, hash_tabx, par, fs>>
    /\ mutations' = mutations + 1
    /\ UNCHANGED hash_tab0
    /\ UNCHANGED aux
    /\ UNCHANGED ext

\* Join that does not wait for the worker process to end
JoinNoWait ==
    /\ pc = "join"
    /\ core' = core + 1
    /\ pc' = "recv"
    /\ UNCHANGED <<inputs, err, hash_tab, disk, saves, ix, tothashes, totaldur, log,
                   filelists, wpc, wix, wht, pipe, nsent, hash_tabx, merged, par, fs>>
    /\ UNCHANGED hist
    /\ UNCHANGED aux
    /\ UNCHANGED ext

\* line 227: pr[core].join() blocks until the worker process has ended
Join ==
    /\ pc = "join"
    /\ wpc[core] = "exited"
    /\ core' = core + 1
    /\ pc' = "recv"
    /\ UNCHANGED <<inputs, err, hash_tab, disk, saves, ix, tothashes, totaldur, log,
                   filelists, wpc, wix, wht, pipe, nsent, hash_tabx, merged, par, fs>>
    /\ UNCHANGED hist
    /\ UNCHANGED aux
    /\ UNCHANGED ext

(***************************************************************************)
(* main, lines 427-430: the index is saved if it has been modified.        *)
(***************************************************************************)
\* hash_tab.save(dbase) called by main (line 429): the write fails when the
\* directory of dbase does not exist, and the exception leaves main
HashTabSave ==
    IF dbdir # "exists"
    THEN /\ Raise("IOError: cannot write hash table")
         /\ UNCHANGED <<disk, hash_tab, saves>>
    ELSE /\ pc' = "done"
         /\ disk' = HTStored(hash_tab)
         /\ hash_tab' = [hash_tab EXCEPT !.dirty = FALSE]
         /\ saves' = Append(saves, <<"primary", dbase>>)
         /\ UNCHANGED err

\* MainSave with the test of the dirty flag left out
MainSaveAlways ==
    /\ pc = "executor_returned"
    /\ IF hash_tab # None
       THEN HashTabSave
       ELSE /\ pc' = "done"
            /\ UNCHANGED <<disk, hash_tab, saves, err>>
    /\ UNCHANGED <<inputs, ix, tothashes, totaldur, log, mpadd, par, fs>>
    /\ UNCHANGED hist
    /\ UNCHANGED aux
    /\ UNCHANGED ext

\* MainSave that saves only an index main has created
MainSaveNewOnly ==
    /\ pc = "executor_returned"
    /\ IF hash_tab # None /\ hash_tab.dirty /\ cmd \in {"new", "newmerge"}
       THEN HashTabSave
       ELSE /\ pc' = "done"
            /\ UNCHANGED <<disk, hash_tab, saves, err>>
    /\ UNCHANGED <<inputs, ix, tothashes, totaldur, log, mpadd, par, fs>>
    /\ UNCHANGED hist
    /\ UNCHANGED aux
    /\ UNCHANGED ext

\* MainSave in a finally clause: the index is saved after an exception of
\* the executor as well
MainSaveFinally ==
    /\ \/ pc = "executor_returned"
       \/ pc = "error" /\ entry = "main" /\ executors # {} /\ saves = <<>>
                       /\ hash_tab # None /\ hash_tab.dirty
                       /\ err # "IOError: cannot write hash table"
    /\ IF hash_tab # None /\ hash_tab.dirty
       THEN HashTabSave
       ELSE /\ pc' = "done"
            /\ UNCHANGED <<disk, hash_tab, saves, err>>
    /\ UNCHANGED <<inputs, ix, tothashes, totaldur, log, mpadd, par, fs>>
    /\ UNCHANGED hist
    /\ UNCHANGED aux
    /\ UNCHANGED ext

MainSave ==
    /\ pc = "executor_returned"
    /\ IF hash_tab # None /\ hash_tab.dirty
       THEN HashTabSave
       ELSE /\ pc' = "done"
            /\ UNCHANGED <<disk, hash_tab, saves, err>>
    /\ UNCHANGED <<inputs, ix, tothashes, totaldur, log, mpadd, par, fs>>
    /\ UNCHANGED hist
    /\ UNCHANGED aux
    /\ UNCHANGED ext

(***************************************************************************)
(* The same precompute command line with --skip-existing is run a second   *)
(* time once the first run has ended normally: a new process starts from   *)
(* the beginning and finds the precomputed files the first run has left.   *)
(***************************************************************************)
Rerun ==
    /\ cmd = "precompute"
    /\ skip_existing
    /\ run = 1
    /\ pc \in {"done", "returned"}
    /\ run' = 2
    /\ pc' = IF entry = "main" THEN "start" ELSE entry
    /\ ix' = 0
    /\ log' = <<>>
    /\ tstate' = [p \in Positions |-> "pending"]
    /\ tresult' = [p \in Positions |-> Msg("none", "", 0)]
    /\ completed' = <<>>
    /\ analyzed' = 0
    /\ writes' = 0
    /\ executors' = {}
    /\ UNCHANGED <<inputs, err, hash_tab, disk, saves, tothashes, totaldur, mpadd>>
    /\ UNCHANGED <<artifacts, outdir_exists, dbdir>>
    /\ UNCHANGED hist
    /\ UNCHANGED ext

(***************************************************************************)
(* The main variables at rest: the state in which the separate             *)
(* specifications below leave the orchestration layer.                     *)
(***************************************************************************)
Quiescent ==
    /\ entry = "main" /\ cmd = "list" /\ dbase = DbPath /\ ncores = 1
    /\ files = <<>>
    /\ nhash = [f \in FileNames |-> 1]
    /\ unreadable = {}
    /\ continue_on_error = FALSE /\ skip_existing = FALSE /\ precompute_peaks = FALSE
    /\ dbsr = [f \in FileNames |-> DefaultSamplerate]
    /\ pc = "start" /\ err = "none"
    /\ hash_tab = None /\ disk = None /\ saves = <<>>
    /\ ix = 0 /\ tothashes = 0 /\ totaldur = 0 /\ log = <<>>
    /\ filelists = [c \in Cores |-> <<>>]
    /\ wpc = [c \in Cores |-> "unstarted"]
    /\ wix = [c \in Cores |-> 0]
    /\ wht = [c \in Cores |-> None]
    /\ pipe = [c \in Cores |-> None]
    /\ nsent = [c \in Cores |-> 0]
    /\ core = 0 /\ hash_tabx = None /\ merged = <<>>
    /\ tstate = <<>> /\ tresult = <<>> /\ completed = <<>>
    /\ artifacts = {} /\ analyzed = 0
    /\ hash_tab0 = None /\ mutations = 0
    /\ executors = {} /\ dbdir = "exists" /\ run = 1 /\ writes = 0
    /\ outdir_exists = FALSE
    /\ blocking_send = FALSE /\ htsize = DefaultSize
    /\ wsize = [c \in Cores |-> NoSize]
    /\ diag = <<>>

(***************************************************************************)
(* Concurrent precompute workers in file_precompute_peaks_or_hashes, lines *)
(* 99-108, all writing into one output subdirectory.  Each worker is at    *)
(* the test of line 99 with an empty or a non-empty analysis; ensure_dir   *)
(* (lines 46-55) is two steps, the test os.path.exists and os.makedirs,    *)
(* and other workers run between them.                                     *)
(***************************************************************************)
Workers == 1..Len(epc)

InitRace ==
    /\ Quiescent
    /\ epc \in UNION {[1..n -> {"output_empty", "output"}] : n \in 1..MaxWorkers}
    /\ dir_made \in BOOLEAN
    /\ ewrote = {}
    /\ eraced = {}
    /\ ResolverIdle
    /\ OpfIdle

\* line 99: if len(output) == 0, the zero-length message and no write
LenCheck(w) ==
    /\ epc[w] \in {"output_empty", "output"}
    /\ epc' = [epc EXCEPT ![w] = IF @ = "output_empty" THEN "zero_length" ELSE "exists_check"]
    /\ UNCHANGED <<dir_made, ewrote, eraced>>
    /\ UNCHANGED <<mainvars, resolver, opf>>

\* line 49: if not os.path.exists(dirname)
EnsureDirExists(w) ==
    /\ epc[w] = "exists_check"
    /\ epc' = [epc EXCEPT ![w] = IF dir_made THEN "write" ELSE "makedirs"]
    /\ UNCHANGED <<dir_made, ewrote, eraced>>
    /\ UNCHANGED <<mainvars, resolver, opf>>

\* EnsureDirMakedirs without the try / except around os.makedirs
EnsureDirMakedirsRaises(w) ==
    /\ epc[w] = "makedirs"
    /\ IF dir_made
       THEN /\ epc' = [epc EXCEPT ![w] = "raised"]
            /\ eraced' = eraced \cup {w}
            /\ UNCHANGED dir_made
       ELSE /\ dir_made' = TRUE
            /\ epc' = [epc EXCEPT ![w] = "write"]
            /\ UNCHANGED eraced
    /\ UNCHANGED ewrote
    /\ UNCHANGED <<mainvars, resolver, opf>>

\* lines 52-55: os.makedirs raises when another worker has made the
\* directory since the test; the exception is swallowed
EnsureDirMakedirs(w) ==
    /\ epc[w] = "makedirs"
    /\ IF dir_made
       THEN /\ eraced' = eraced \cup {w}
            /\ UNCHANGED dir_made
       ELSE /\ dir_made' = TRUE
            /\ UNCHANGED eraced
    /\ epc' = [epc EXCEPT ![w] = "write"]
    /\ UNCHANGED ewrote
    /\ UNCHANGED <<mainvars, resolver, opf>>

\* line 105: saver(opfname, output) opens the file for writing, which
\* raises when its directory does not exist
SaverWrite(w) ==
    /\ epc[w] = "write"
    /\ IF dir_made
       THEN /\ ewrote' = ewrote \cup {w}
            /\ epc' = [epc EXCEPT ![w] = "wrote"]
       ELSE /\ epc' = [epc EXCEPT ![w] = "raised"]
            /\ UNCHANGED ewrote
    /\ UNCHANGED <<dir_made, eraced>>
    /\ UNCHANGED <<mainvars, resolver, opf>>

NextRace ==
    \/ \E w \in Workers : LenCheck(w)
    \/ \E w \in Workers : EnsureDirExists(w)
    \/ \E w \in Workers : EnsureDirMakedirs(w)
    \/ \E w \in Workers : SaverWrite(w)

SpecRace == InitRace /\ [][NextRace]_vars

(***************************************************************************)
(* filename_list_iterator (lines 32-42) and its consumer, the loop of      *)
(* do_cmd for new / add (lines 169-178) followed by the save of main       *)
(* (lines 427-430).  Names, paths and file texts are sequences of          *)
(* characters.  The generator runs only when the consumer asks for the     *)
(* next path.                                                              *)
(***************************************************************************)
NL == "\n"
ListNames == {<<"p">>, <<"q">>}
Texts == SeqsUpTo({"x", NL}, MaxText)
Unreadable == <<"?">>

\* os.path.join(a, b)
PathJoin(a, b) ==
    IF b # <<>> /\ b[1] = "/" THEN b
    ELSE IF a = <<>> \/ a[Len(a)] = "/" THEN a \o b
    ELSE a \o <<"/">> \o b

\* the next line a text file iterator returns: up to and including the
\* first newline, or the whole rest when there is none
ReadLine(text) ==
    LET ends == {i \in 1..Len(text) : text[i] = NL}
    IN  IF ends = {} THEN text
        ELSE SubSeq(text, 1, CHOOSE i \in ends : \A j \in ends : i <= j)

\* str.rstrip('\n')
RECURSIVE RStripNL(_)
RStripNL(line) ==
    IF line # <<>> /\ line[Len(line)] = NL
    THEN RStripNL(SubSeq(line, 1, Len(line) - 1))
    ELSE line

InitResolver ==
    /\ Quiescent
    /\ RaceIdle
    /\ OpfIdle
    /\ filelist \in SeqsUpTo(ListNames, MaxArgs)
    /\ listflag \in BOOLEAN
    /\ wavdir \in {<<>>, <<"d">>, <<"d", "/">>}
    /\ wavext = <<".", "w">>
    /\ fcontent \in [ListNames -> Texts \cup {Unreadable}]
    /\ fcontent[<<"q">>] \in {<<"x", NL>>, Unreadable}
    /\ ~listflag => fcontent = [n \in ListNames |-> Unreadable]
    /\ lcoe \in BOOLEAN
    /\ lpc = "next"
    /\ gix = 0
    /\ grest = <<>>
    /\ opened = <<>>
    /\ yielded = <<>>
    /\ ingested = <<>>
    /\ lsaved = FALSE

\* lines 36-37: without the list flag one path per argument
ResolverYieldArg ==
    /\ lpc = "next"
    /\ ~listflag
    /\ gix < Len(filelist)
    /\ yielded' = Append(yielded, PathJoin(wavdir, filelist[gix + 1] \o wavext))
    /\ gix' = gix + 1
    /\ lpc' = "body"
    /\ UNCHANGED <<filelist, listflag, wavdir, wavext, fcontent, lcoe, grest, opened,
                   ingested, lsaved>>
    /\ UNCHANGED <<mainvars, race, opf>>

\* ResolverOpen that skips a list file it cannot open when continue-on-error
\* is set
ResolverOpenSkips ==
    /\ lpc = "next"
    /\ listflag
    /\ gix < Len(filelist)
    /\ IF fcontent[filelist[gix + 1]] = Unreadable
       THEN /\ lpc' = IF lcoe THEN "next" ELSE "IOError"
            /\ gix' = IF lcoe THEN gix + 1 ELSE gix
            /\ UNCHANGED <<grest, opened>>
       ELSE /\ opened' = Append(opened, filelist[gix + 1])
            /\ grest' = fcontent[filelist[gix + 1]]
            /\ lpc' = "next_in_file"
            /\ UNCHANGED gix
    /\ UNCHANGED <<filelist, listflag, wavdir, wavext, fcontent, lcoe, yielded,
                   ingested, lsaved>>
    /\ UNCHANGED <<mainvars, race, opf>>

\* lines 39-40: with open(listfilename, 'r'); the exception of open leaves
\* the generator, the loop of do_cmd and main
ResolverOpen ==
    /\ lpc = "next"
    /\ listflag
    /\ gix < Len(filelist)
    /\ IF fcontent[filelist[gix + 1]] = Unreadable
       THEN /\ lpc' = "IOError"
            /\ UNCHANGED <<grest, opened>>
       ELSE /\ opened' = Append(opened, filelist[gix + 1])
            /\ grest' = fcontent[filelist[gix + 1]]
            /\ lpc' = "next_in_file"
    /\ UNCHANGED <<filelist, listflag, wavdir, wavext, fcontent, lcoe, gix, yielded,
                   ingested, lsaved>>
    /\ UNCHANGED <<mainvars, race, opf>>

\* ResolverYieldLine that keeps the newline of the line
ResolverYieldLineRaw ==
    /\ lpc = "next_in_file"
    /\ grest # <<>>
    /\ LET line == ReadLine(grest)
       IN  /\ yielded' = Append(yielded, PathJoin(wavdir, line \o wavext))
           /\ grest' = SubSeq(grest, Len(line) + 1, Len(grest))
    /\ lpc' = "body"
    /\ UNCHANGED <<filelist, listflag, wavdir, wavext, fcontent, lcoe, gix, opened,
                   ingested, lsaved>>
    /\ UNCHANGED <<mainvars, race, opf>>

\* lines 41-42: one path per line of the open list file
ResolverYieldLine ==
    /\ lpc = "next_in_file"
    /\ grest # <<>>
    /\ LET line == ReadLine(grest)
       IN  /\ yielded' = Append(yielded, PathJoin(wavdir, RStripNL(line) \o wavext))
           /\ grest' = SubSeq(grest, Len(line) + 1, Len(grest))
    /\ lpc' = "body"
    /\ UNCHANGED <<filelist, listflag, wavdir, wavext, fcontent, lcoe, gix, opened,
                   ingested, lsaved>>
    /\ UNCHANGED <<mainvars, race, opf>>

\* the end of the open list file: the with block closes it and the outer
\* loop goes on to the next argument
ResolverClose ==
    /\ lpc = "next_in_file"
    /\ grest = <<>>
    /\ gix' = gix + 1
    /\ lpc' = "next"
    /\ UNCHANGED <<filelist, listflag, wavdir, wavext, fcontent, lcoe, grest, opened,
                   yielded, ingested, lsaved>>
    /\ UNCHANGED <<mainvars, race, opf>>

\* the generator returns after the last argument
ResolverStop ==
    /\ lpc = "next"
    /\ gix = Len(filelist)
    /\ lpc' = "exhausted"
    /\ UNCHANGED <<filelist, listflag, wavdir, wavext, fcontent, lcoe, gix, grest, opened,
                   yielded, ingested, lsaved>>
    /\ UNCHANGED <<mainvars, race, opf>>

\* do_cmd, lines 170-174: the loop body ingests the path it was given
ConsumerIngest ==
    /\ lpc = "body"
    /\ ingested' = Append(ingested, yielded[Len(yielded)])
    /\ lpc' = IF listflag THEN "next_in_file" ELSE "next"
    /\ UNCHANGED <<filelist, listflag, wavdir, wavext, fcontent, lcoe, gix, grest, opened,
                   yielded, lsaved>>
    /\ UNCHANGED <<mainvars, race, opf>>

\* do_cmd, lines 176-178, then main, lines 427-430: the rate of hashes per
\* second (a division by the total duration, zero when nothing was
\* ingested) and the save of the modified index
ConsumerFinish ==
    /\ lpc = "exhausted"
    /\ IF ingested = <<>>
       THEN /\ lpc' = "ZeroDivisionError"
            /\ UNCHANGED lsaved
       ELSE /\ lsaved' = TRUE
            /\ lpc' = "done"
    /\ UNCHANGED <<filelist, listflag, wavdir, wavext, fcontent, lcoe, gix, grest, opened,
                   yielded, ingested>>
    /\ UNCHANGED <<mainvars, race, opf>>

NextResolver ==
    \/ ResolverYieldArg
    \/ ResolverOpen
    \/ ResolverYieldLine
    \/ ResolverClose
    \/ ResolverStop
    \/ ConsumerIngest
    \/ ConsumerFinish

SpecResolver == InitResolver /\ [][NextResolver]_vars

(***************************************************************************)
(* The output file name of file_precompute_peaks_or_hashes (lines 68-85),  *)
(* one step per statement; file names are sequences of characters.         *)
(***************************************************************************)
PathChars == {"/", ".", "a"}
PrecompExtChars == <<".", "a", "f", "p", "t">>
PrecompPkExtChars == <<".", "a", "f", "p", "k">>

\* s[:n] and s[n:] of Python
Upto(s, n) == SubSeq(s, 1, IF n < Len(s) THEN n ELSE Len(s))
From(s, n) == SubSeq(s, n + 1, Len(s))

\* str.split('/')
RECURSIVE SplitSlash(_)
SplitSlash(s) ==
    LET at == {i \in 1..Len(s) : s[i] = "/"}
    IN  IF at = {} THEN <<s>>
        ELSE LET i == CHOOSE x \in at : \A y \in at : x <= y
             IN  <<SubSeq(s, 1, i - 1)>> \o SplitSlash(From(s, i))

\* '/'.join(comps)
RECURSIVE JoinSlash(_)
JoinSlash(comps) ==
    IF comps = <<>> THEN <<>>
    ELSE IF Len(comps) = 1 THEN comps[1]
    ELSE comps[1] \o <<"/">> \o JoinSlash(From(comps, 1))

\* the index of the last c in s, 0 when there is none (str.rfind, counted from 1)
RFind(s, c) ==
    LET at == {i \in 1..Len(s) : s[i] = c}
    IN  IF at = {} THEN 0 ELSE CHOOSE x \in at : \A y \in at : y <= x

\* os.path.splitext(p)[0]: the extension starts at the last dot of the last
\* component, unless only dots precede it there
SplitExtRoot(p) ==
    LET sepIndex == RFind(p, "/")
        dotIndex == RFind(p, ".")
    IN  IF dotIndex > sepIndex
           /\ \E i \in (sepIndex + 1)..(dotIndex - 1) : p[i] # "."
        THEN SubSeq(p, 1, dotIndex - 1)
        ELSE p

InitOpf ==
    /\ Quiescent
    /\ RaceIdle
    /\ ResolverIdle
    /\ filename \in SeqsUpTo(PathChars, MaxPath)
    /\ strip_prefix \in SeqsUpTo(PathChars, MaxPrefix)
    /\ precompdir \in {<<"o">>, <<"o", "/">>}
    /\ hashes_not_peaks \in BOOLEAN
    /\ opc = "strip"
    /\ tail_filename = <<>>
    /\ relname = <<>>
    /\ root = <<>>
    /\ opfname = <<>>

\* lines 70-73
OpfStrip ==
    /\ opc = "strip"
    /\ tail_filename' =
           IF strip_prefix # <<>> /\ Upto(filename, Len(strip_prefix)) = strip_prefix
           THEN From(filename, Len(strip_prefix))
           ELSE filename
    /\ opc' = "relname"
    /\ UNCHANGED <<filename, strip_prefix, precompdir, hashes_not_peaks, relname, root, opfname>>
    /\ UNCHANGED <<mainvars, race, resolver>>

\* OpfRelname that keeps the '..' components
OpfRelnameKeepsParent ==
    /\ opc = "relname"
    /\ relname' = JoinSlash(SelectSeq(SplitSlash(tail_filename),
                                      LAMBDA comp : comp # <<".">> /\ comp # <<>>))
    /\ opc' = "splitext"
    /\ UNCHANGED <<filename, strip_prefix, precompdir, hashes_not_peaks, tail_filename, root,
                   opfname>>
    /\ UNCHANGED <<mainvars, race, resolver>>

\* lines 77-78
OpfRelname ==
    /\ opc = "relname"
    /\ relname' = JoinSlash(SelectSeq(SplitSlash(tail_filename),
                                      LAMBDA comp : /\ comp # <<".">>
                                                    /\ comp # <<".", ".">>
                                                    /\ comp # <<>>))
    /\ opc' = "splitext"
    /\ UNCHANGED <<filename, strip_prefix, precompdir, hashes_not_peaks, tail_filename, root,
                   opfname>>
    /\ UNCHANGED <<mainvars, race, resolver>>

\* line 79
OpfSplitext ==
    /\ opc = "splitext"
    /\ root' = SplitExtRoot(relname)
    /\ opc' = "join"
    /\ UNCHANGED <<filename, strip_prefix, precompdir, hashes_not_peaks, tail_filename,
                   relname, opfname>>
    /\ UNCHANGED <<mainvars, race, resolver>>

\* lines 80-85
OpfJoin ==
    /\ opc = "join"
    /\ opfname' = PathJoin(precompdir,
                           root \o (IF hashes_not_peaks THEN PrecompExtChars
                                    ELSE PrecompPkExtChars))
    /\ opc' = "done"
    /\ UNCHANGED <<filename, strip_prefix, precompdir, hashes_not_peaks, tail_filename,
                   relname, root>>
    /\ UNCHANGED <<mainvars, race, resolver>>

NextOpf ==
    \/ OpfStrip
    \/ OpfRelname
    \/ OpfSplitext
    \/ OpfJoin

SpecOpf == InitOpf /\ [][NextOpf]_vars

Next ==
    \/ MainSetup
    \/ MainDispatch
    \/ DoCmdMerge
    \/ DoCmdPrecompute
    \/ DoCmdMatch
    \/ DoCmdAdd
    \/ DoCmdRemove
    \/ DoCmdList
    \/ DoCmdUnrecognized
    \/ MainSave
    \/ DoCmdMultiproc
    \/ TaskStart
    \/ \E p \in Positions : TaskFinish(p)
    \/ ParallelFails
    \/ ParallelReturns
    \/ LogMsgs
    \/ Partition
    \/ Launch
    \/ \E k \in Cores : WorkerStore(k)
    \/ \E k \in Cores : WorkerSend(k)
    \/ \E k \in Cores : WorkerExit(k)
    \/ Recv
    \/ Merge
    \/ Join
    \/ Rerun

Spec == Init /\ [][Next]_vars

(***************************************************************************)
(* multiproc_add called directly for add, with the scheduling the          *)
(* operating system gives: the orchestrator and every worker process that  *)
(* can take a step eventually takes one.                                   *)
(***************************************************************************)
InitMP ==
    /\ Init
    /\ entry = "do_cmd_multiproc"
    /\ cmd = "add"
    /\ htsize = DefaultSize
    \* a partial index is larger than what the pipe buffers: pipe.send
    \* returns only when the orchestrator has received it
    /\ blocking_send = TRUE

Orchestrator ==
    \/ DoCmdMultiproc
    \/ Partition
    \/ Launch
    \/ Recv
    \/ Merge
    \/ Join

Worker(k) ==
    /\ k \in Cores
    /\ \/ WorkerStore(k)
       \/ WorkerSend(k)
       \/ WorkerExit(k)

NextMP ==
    \/ Orchestrator
    \/ \E k \in Cores : Worker(k)

SpecMP ==
    /\ InitMP
    /\ [][NextMP]_vars
    /\ WF_vars(Orchestrator)
    /\ \A k \in 0..(MaxCores - 1) : WF_vars(Worker(k))

(***************************************************************************)
(* C1: in a run of main the index is saved at most once, only after the    *)
(* executor has returned without an exception, only if the index is dirty  *)
(* at that moment, and to the path given as dbase.                         *)
(***************************************************************************)
C1_SaveOnceAfterExecutor ==
    [][saves' # saves =>
         /\ entry = "main"
         /\ pc = "executor_returned"
         /\ err = "none"
         /\ saves = <<>>
         /\ hash_tab # None
         /\ hash_tab.dirty
         /\ dbase = DbPath
         /\ saves' = << <<"primary", dbase>> >>
         /\ disk' = HTStored(hash_tab)]_vars

C1_Witness ==
    /\ entry = "main"
    /\ pc = "done"
    /\ cmd = "add"
    /\ saves = << <<"primary", DbPath>> >>
    /\ mutations = 2

(***************************************************************************)
(* C2, as stated: a list or match run never writes the index, and any run  *)
(* that performs at least one store, merge or remove on the primary index  *)
(* persists it exactly once.                                               *)
(***************************************************************************)
RunEnded == pc \in {"done", "error"}

\* errors that the design makes fatal: a samplerate mismatch in merge and
\* an analysis error without --continue-on-error
FatalByDesign == {"AssertionError", "analysis error"}

C2_Original ==
    /\ cmd \in {"list", "match"} => saves = <<>>
    /\ (entry = "main" /\ RunEnded /\ err \in {"none"} \cup FatalByDesign /\ mutations > 0)
         => Len(saves) = 1

(***************************************************************************)
(* C2, amended: a list or match run never writes the index, and any run    *)
(* of main that ends without an error after at least one store, merge or   *)
(* remove that changed the primary index has persisted it exactly once.    *)
(***************************************************************************)
C2_PersistIfExecutorReturned ==
    /\ cmd \in {"list", "match"} => saves = <<>>
    /\ (entry = "main" /\ pc = "done" /\ mutations > 0) => Len(saves) = 1

C2_Witness ==
    /\ entry = "main"
    /\ pc = "done"
    /\ cmd = "remove"
    /\ mutations = 1
    /\ Len(saves) = 1
    /\ disk.entries = <<>>

(***************************************************************************)
(* C3: only the primary index is ever saved; a partial index built by a    *)
(* worker leaves it only through its pipe and the merge into the primary.  *)
(***************************************************************************)
C3_OnlyPrimaryPersisted ==
    /\ \A i \in 1..Len(saves) : saves[i] = <<"primary", dbase>>
    /\ (\E k \in Cores : wpc[k] # "unstarted") => (saves = <<>> /\ disk = HTStored(hash_tab0))

C3_Witness ==
    /\ pc = "returned"
    /\ cmd = "add"
    /\ merged = <<0, 1>>
    /\ \A k \in Cores : wht[k].entries # <<>>
    /\ saves = <<>>

(***************************************************************************)
(* Reference results: the index that single-process ingest of a file list  *)
(* builds, the partition that round-robin assigns to a core, and the       *)
(* primary index after the partials have been merged in core order.        *)
(***************************************************************************)
RECURSIVE IngestAll(_, _)
IngestAll(ht, fl) ==
    IF fl = <<>> THEN ht
    ELSE IngestAll(HTStore(ht, fl[1], Hashes(fl[1])), Tail(fl))

RoundRobin(k, n) ==
    LET cnt == Cardinality({p \in 1..n : (p - 1) % ncores = k})
    IN  [j \in 1..cnt |-> files[(j - 1) * ncores + k + 1]]

RECURSIVE MergeInOrder(_, _)
MergeInOrder(ht, k) ==
    IF k >= ncores THEN ht
    ELSE MergeInOrder(HTMerge(ht, IngestAll(HTNew, RoundRobin(k, Len(files)))), k + 1)

(***************************************************************************)
(* C4: a new/add run at concurrency degree N > 1 ends with the same        *)
(* per-file entry counts, and the same total number of stored hashes, as   *)
(* single-process ingest of the same file list.                            *)
(***************************************************************************)
C4_MultiprocSameCounts ==
    (/\ cmd \in {"new", "add"}
     /\ ncores > 1
     /\ hash_tab0 # None
     /\ unreadable = {}
     /\ pc \in {"done", "error", "returned"})
    => /\ \A f \in FileNames :
            PerFileCount(hash_tab, f) = PerFileCount(IngestAll(hash_tab0, files), f)
       /\ SumCounts(hash_tab.entries) = SumCounts(IngestAll(hash_tab0, files).entries)

(***************************************************************************)
(* C5: multiproc_add puts the filename at position i into partition        *)
(* i mod N and into no other, so the partitions are disjoint by position   *)
(* and cover the input, and every input file is analysed and stored by     *)
(* exactly one worker exactly once, also when some partitions are empty.   *)
(***************************************************************************)
RECURSIVE SumLen(_, _)
SumLen(fl, k) == IF k >= ncores THEN 0 ELSE Len(fl[k]) + SumLen(fl, k + 1)

RECURSIVE SumOver(_, _)
SumOver(fn, k) == IF k >= ncores THEN 0 ELSE fn[k] + SumOver(fn, k + 1)

C5_RoundRobinPartition ==
    (cmd \in {"new", "add"} /\ entry = "do_cmd_multiproc")
    => /\ \A k \in Cores : filelists[k] = RoundRobin(k, ix)
       /\ SumLen(filelists, 0) = ix
       /\ \A k \in Cores : wix[k] <= Len(filelists[k])
       /\ \A k \in Cores : wpc[k] # "unstarted" =>
                             wht[k] = IngestAll(HTNew, SubSeq(filelists[k], 1, wix[k]))
       /\ analyzed = SumOver(wix, 0) + Cardinality({k \in Cores : wpc[k] = "died"})
       /\ pc = "returned" => /\ ix = Len(files)
                             /\ \A k \in Cores : wix[k] = Len(filelists[k])
                             /\ analyzed = Len(files)

C5_Witness ==
    /\ pc = "returned"
    /\ cmd = "new"
    /\ ncores = 3
    /\ Len(files) = 2
    /\ filelists[2] = <<>>
    /\ filelists[0] = <<"b">>
    /\ analyzed = 2

(***************************************************************************)
(* C6: in multi-process precompute and match the messages are logged in    *)
(* the order in which the files were submitted, whatever the order in      *)
(* which the tasks complete.                                               *)
(***************************************************************************)
C6_LogInSubmissionOrder ==
    (cmd \in {"precompute", "match"} /\ entry = "do_cmd_multiproc")
    => /\ Len(log) <= Len(files)
       /\ \A i \in 1..Len(log) : log[i].file = files[i] /\ log[i] = tresult[i]
       /\ pc = "returned" => Len(log) = Len(files)

C6_Witness ==
    /\ pc = "returned"
    /\ cmd = "match"
    /\ files = <<"a", "b", "a">>
    /\ completed = <<3, 2, 1>>
    /\ Len(log) = 3

(***************************************************************************)
(* C7: a match run at a concurrency degree above 1 logs the same messages  *)
(* as the run at concurrency degree 1 over the same files: one block per   *)
(* file, in input order.                                                   *)
(***************************************************************************)
SingleMatchLog == [i \in 1..Len(files) |-> Msg("match", files[i], i - 1)]

C7_MatchLogSameAsSingle ==
    (/\ entry = "main"
     /\ cmd = "match"
     /\ hash_tab0 # None
     /\ unreadable = {}
     /\ pc \in {"done", "error"})
    => \A i \in 1..Len(files) : Len(log) >= i /\ log[i].file = SingleMatchLog[i].file

(***************************************************************************)
(* C8: the orchestrator receives partial k only after partial k-1 has been *)
(* received and merged, so the partials are merged in the order            *)
(* 0, 1, ..., N-1 in every interleaving, and the primary index at the end  *)
(* depends only on the inputs and N.                                       *)
(***************************************************************************)
C8_MergeInPartitionOrder ==
    (cmd \in {"new", "add"} /\ entry = "do_cmd_multiproc")
    => /\ merged = [i \in 1..Len(merged) |-> i - 1]
       /\ pc \in {"recv", "merge"} => Len(merged) = core
       /\ pc = "join" => Len(merged) = core + 1
       /\ pc = "returned" => /\ Len(merged) = ncores
                             /\ hash_tab = MergeInOrder(hash_tab0, 0)

C8_Witness ==
    /\ pc = "returned"
    /\ cmd = "add"
    /\ ncores = 2
    /\ files = <<"a", "b", "b">>
    /\ hash_tab0.entries # <<>>
    /\ merged = <<0, 1>>

(***************************************************************************)
(* C9: the primary index is changed only by the orchestrating process: no  *)
(* step of a worker or of a task changes it, and on the multi-process      *)
(* path it changes only in a merge step of the orchestrator, one at a      *)
(* time.                                                                   *)
(***************************************************************************)
C9_PrimaryOwnedByOrchestrator ==
    [][hash_tab' # hash_tab =>
         /\ <<wpc, wix, wht, nsent, tstate, tresult, completed>>' =
              <<wpc, wix, wht, nsent, tstate, tresult, completed>>
         /\ pc \in {"start", "do_cmd", "merge", "executor_returned"}
         /\ pc' # pc \/ ix' # ix
         /\ entry = "do_cmd_multiproc" =>
              (pc = "merge" /\ hash_tab' = HTMerge(hash_tab, hash_tabx))]_vars

C9_Witness ==
    /\ pc = "join"
    /\ ncores = 2
    /\ core = 0
    /\ hash_tab.entries # hash_tab0.entries
    /\ wpc[1] = "running"
    /\ wix[1] = 1

(***************************************************************************)
(* C10: a worker sends its partial index exactly once, only after it has   *)
(* stored every file of its partition, and the partial does not change     *)
(* afterwards; the orchestrator merges a partial only after its worker has *)
(* sent it.                                                                *)
(***************************************************************************)
C10_OneShotTransfer ==
    /\ \A k \in Cores :
         /\ nsent[k] <= 1
         /\ nsent[k] = 1 <=> wpc[k] \in {"sent", "exited"}
         /\ nsent[k] = 1 => wht[k] = IngestAll(HTNew, filelists[k])
         /\ pipe[k] # None => (nsent[k] = 1 /\ pipe[k] = wht[k])
    /\ \A i \in 1..Len(merged) : nsent[merged[i]] = 1
    /\ pc = "merge" => (nsent[core] = 1 /\ hash_tabx = wht[core] /\ pipe[core] = None)

C10_Witness ==
    /\ pc = "merge"
    /\ ncores = 3
    /\ core = 1
    /\ wpc[1] = "sent"
    /\ wpc[2] = "running"
    /\ Len(filelists[1]) = 1
    /\ hash_tabx.entries = <<<<"b", 1>>>>

(***************************************************************************)
(* C11: when multiproc_add has returned, each of the ncores worker         *)
(* processes has ended and has been joined, each of the ncores partial     *)
(* indexes has been received and merged, one merge per core; and main      *)
(* neither reaches its save nor has saved while a worker process is alive. *)
(***************************************************************************)
WorkerAlive(k) == wpc[k] \in {"running", "sent"}

C11_AllJoinedAndMerged ==
    /\ (cmd \in {"new", "add"} /\ entry = "do_cmd_multiproc" /\ pc = "returned") =>
          /\ core = ncores
          /\ \A k \in Cores : wpc[k] = "exited" /\ pipe[k] = None /\ nsent[k] = 1
          /\ merged = [i \in 1..ncores |-> i - 1]
          /\ mutations = ncores
    /\ (pc \in {"executor_returned", "done"} \/ saves # <<>>) =>
          \A k \in Cores : ~WorkerAlive(k)

C11_Witness ==
    /\ ncores = 3
    /\ cmd = "add"
    /\ pc = "returned"
    /\ merged = <<0, 1, 2>>
    /\ Len(files) = 3
    /\ \A k \in Cores : wpc[k] = "exited"

(***************************************************************************)
(* C12: once main has passed its dispatch (lines 405-418) without a setup  *)
(* error, exactly one executor has been entered: do_cmd_multiproc if       *)
(* ncores > 1 and the command is precompute, match, new or add, and do_cmd *)
(* otherwise.                                                              *)
(***************************************************************************)
SetupErrors == {"UsageError: invalid choice",
                "ValueError: dbase name must be provided",
                "IOError: cannot read hash table"}

Dispatched == entry = "main" /\ pc \notin {"start", "dispatch"} /\ err \notin SetupErrors

C12_ExactlyOneExecutor ==
    Dispatched =>
        executors = IF ncores > 1 /\ cmd \in MultiprocCommands
                    THEN {"do_cmd_multiproc"}
                    ELSE {"do_cmd"}

(***************************************************************************)
(* C13: in merge and newmerge the primary index holds the entries it       *)
(* started with and those of the first ix arguments, all of one sample     *)
(* rate, which is the rate the primary carries; an argument whose rate is  *)
(* defined and differs from the primary's ends the run with the assertion  *)
(* error and is not merged.                                                *)
(***************************************************************************)
\* the defined sample rates of the indexes whose entries the primary holds
MergedRates ==
    {dbsr[files[i]] : i \in 1..ix}
        \cup (IF hash_tab0.samplerate # NoSR THEN {hash_tab0.samplerate} ELSE {})

C13_OneSampleRate ==
    (cmd \in {"merge", "newmerge"} /\ hash_tab # None) =>
        /\ Cardinality(MergedRates) <= 1
        /\ MergedRates # {} => MergedRates = {hash_tab.samplerate}
        /\ hash_tab.entries = hash_tab0.entries \o [i \in 1..ix |-> <<files[i], 1>>]
        /\ err = "AssertionError" =>
              /\ ix < Len(files)
              /\ hash_tab.samplerate # NoSR
              /\ dbsr[files[ix + 1]] \notin {NoSR, hash_tab.samplerate}
              /\ saves = <<>>

C13_Witness ==
    /\ cmd = "newmerge"
    /\ pc = "error"
    /\ err = "AssertionError"
    /\ ix = 1
    /\ hash_tab.samplerate = DefaultSamplerate
    /\ dbsr[files[2]] = OtherSamplerate

(***************************************************************************)
(* C14: a merge step on a primary index without sample rate and an         *)
(* argument that defines one gives the primary that rate and appends the   *)
(* argument's entries; in newmerge, once an argument has been merged, the  *)
(* primary carries the rate of the first argument, and a run that ends     *)
(* with the assertion error met a later argument of another rate.          *)
(***************************************************************************)
NewmergeCarriesFirstRate ==
    (cmd = "newmerge" /\ ix >= 1) =>
        /\ hash_tab.samplerate = dbsr[files[1]]
        /\ err = "AssertionError" => dbsr[files[ix + 1]] \notin {NoSR, dbsr[files[1]]}

C14_AdoptsIncomingRate ==
    [][/\ (/\ pc = "do_cmd"
           /\ cmd \in {"merge", "newmerge"}
           /\ ix < Len(files)
           /\ hash_tab.samplerate = NoSR
           /\ dbsr[files[ix + 1]] # NoSR) =>
              /\ hash_tab'.samplerate = dbsr[files[ix + 1]]
              /\ hash_tab'.entries = hash_tab.entries \o << <<files[ix + 1], 1>> >>
              /\ hash_tab'.dirty
              /\ ix' = ix + 1
              /\ err' = "none"
       /\ NewmergeCarriesFirstRate']_vars

C14_Witness ==
    /\ cmd = "newmerge"
    /\ pc = "error"
    /\ err = "AssertionError"
    /\ ix = 2
    /\ hash_tab.samplerate = OtherSamplerate
    /\ hash_tab.entries = << <<"a", 1>>, <<"a", 1>> >>

(***************************************************************************)
(* C15: a merge step raises the consistency error only when the primary    *)
(* and the argument both define a sample rate and the two differ; in every *)
(* other case, in particular when the argument defines none, the step      *)
(* merges the argument without an error.                                   *)
(***************************************************************************)
C15_RejectsOnlyDefinedMismatch ==
    [][(pc = "do_cmd" /\ cmd \in {"merge", "newmerge"} /\ ix < Len(files)) =>
          IF /\ hash_tab.samplerate # NoSR
             /\ dbsr[files[ix + 1]] # NoSR
             /\ hash_tab.samplerate # dbsr[files[ix + 1]]
          THEN /\ err' = "AssertionError"
               /\ UNCHANGED hash_tab
          ELSE /\ err' = "none"
               /\ ix' = ix + 1
               /\ hash_tab'.entries = hash_tab.entries \o << <<files[ix + 1], 1>> >>]_vars

(***************************************************************************)
(* C16: a run of main whose command is not precompute and that is given no *)
(* dbase ends with the ValueError of line 370 and does nothing else: no    *)
(* index is created or loaded, no executor is entered, no file is read,    *)
(* nothing is logged and nothing is saved.                                 *)
(***************************************************************************)
C16_DbaseRequired ==
    (entry = "main" /\ cmd \in Commands \ {"precompute"} /\ dbase = NoPath) =>
        /\ pc \in {"start", "error"}
        /\ pc = "error" => err = "ValueError: dbase name must be provided"
        /\ hash_tab = None
        /\ executors = {}
        /\ ix = 0
        /\ analyzed = 0
        /\ log = <<>>
        /\ saves = <<>>
        /\ mutations = 0
        /\ \A p \in Positions : tstate[p] = "pending"
        /\ \A k \in Cores : wpc[k] = "unstarted"

C16_Witness ==
    /\ entry = "main"
    /\ cmd = "add"
    /\ dbase = NoPath
    /\ files = <<"a", "b">>
    /\ disk # None
    /\ pc = "error"
    /\ err = "ValueError: dbase name must be provided"

(***************************************************************************)
(* C17: in a run whose command is none of the eight the only step is the   *)
(* one that raises the error for the unrecognized command (the ValueError  *)
(* of do_cmd or of do_cmd_multiproc, or the rejection of the argument in   *)
(* main): no step follows it, and it reads no input file, logs nothing     *)
(* and neither changes nor saves the index.                                *)
(***************************************************************************)
UnrecognizedError ==
    IF entry = "do_cmd" THEN "ValueError: unrecognized command"
    ELSE IF entry = "do_cmd_multiproc" THEN "ValueError: unrecognized multiproc command"
    ELSE "UsageError: invalid choice"

C17_UnknownCommandFatal ==
    [][cmd \notin Commands =>
          /\ pc # "error"
          /\ pc' = "error"
          /\ err' = UnrecognizedError
          /\ UNCHANGED <<hash_tab, disk, saves, ix, analyzed, log, artifacts, mutations>>
          /\ UNCHANGED <<tstate, wpc, filelists>>]_vars

C17_Witness ==
    /\ entry = "do_cmd"
    /\ cmd = UnknownCommand
    /\ pc = "error"
    /\ err = "ValueError: unrecognized command"
    /\ files = <<"a", "b">>
    /\ hash_tab.entries # <<>>
    /\ ~hash_tab.dirty
    /\ saves = <<>>

(***************************************************************************)
(* C18: a run of new or newmerge whose dbase lies in a directory that does *)
(* not exist and cannot be created ends with an error in the setup of      *)
(* main: it never gets as far as the executor, analyses no file and merges *)
(* no index.                                                               *)
(***************************************************************************)
C18_FailsFastOnBlockedDir ==
    (entry = "main" /\ cmd \in {"new", "newmerge"} /\ dbase # NoPath /\ dbdir = "blocked") =>
        /\ pc \in {"start", "error"}
        /\ analyzed = 0
        /\ mutations = 0
        /\ err # "IOError: cannot write hash table"

(***************************************************************************)
(* C19, as stated: in the second of two precompute runs over the same file *)
(* list with skip-existing, the analyzer is never called and no            *)
(* precomputed file is written.                                            *)
(***************************************************************************)
C19_Original ==
    (cmd = "precompute" /\ skip_existing /\ unreadable = {} /\ run = 2) =>
        /\ analyzed = 0
        /\ writes = 0

(***************************************************************************)
(* C19, amended: in the second run no precomputed file is written, and the *)
(* analyzer is called only for files that have no precomputed file, which  *)
(* are the files whose analysis is empty; when the second run has ended    *)
(* each of these has been analysed once more.                              *)
(***************************************************************************)
\* the positions dispatched so far whose file has no precomputed file
Unwritten == {p \in 1..ix : OpfName(files[p]) \notin artifacts}

C19_SecondRunSkipsExisting ==
    (cmd = "precompute" /\ skip_existing /\ run = 2) =>
        /\ writes = 0
        /\ \A p \in Positions : OpfName(files[p]) \notin artifacts <=> Hashes(files[p]) = 0
        /\ analyzed <= Cardinality(Unwritten)
        /\ pc \in {"done", "returned"} => analyzed = Cardinality(Unwritten)
        /\ \A i \in 1..Len(log) :
              log[i] = IF Hashes(files[i]) = 0
                       THEN Msg("zero length", files[i], 0)
                       ELSE Msg("skipping", files[i], 0)

C19_Witness ==
    /\ cmd = "precompute"
    /\ skip_existing
    /\ run = 2
    /\ pc = "done"
    /\ files = <<"a", "b", "a">>
    /\ nhash["b"] = 0
    /\ unreadable = {}
    /\ analyzed = 1
    /\ writes = 0
    /\ log = <<Msg("skipping", "a", 0), Msg("zero length", "b", 0), Msg("skipping", "a", 0)>>

(***************************************************************************)
(* C20: a call of the precompute cache writer whose analysis does not      *)
(* raise appends exactly one message, about its file, and is one of three  *)
(* cases: skipped (skip-existing and the output exists: no analysis, no    *)
(* write), zero length (empty analysis: one analysis, nothing written, no  *)
(* directory created, no error), or wrote (one analysis, the output        *)
(* directory exists afterwards and the one output file of that input has   *)
(* been written).  When the executor has returned the log holds one        *)
(* message per input file, in the order of the files.                      *)
(***************************************************************************)
PrecomputeKinds == {"skipping", "zero length", "wrote"}

OneMessagePerFile ==
    (cmd = "precompute" /\ pc \in {"executor_returned", "done", "returned"}) =>
        /\ Len(log) = Len(files)
        /\ \A i \in 1..Len(log) : log[i].file = files[i] /\ log[i].kind \in PrecomputeKinds

C21_EnsureDirRaceBenign ==
    \A w \in Workers :
        /\ epc[w] # "raised"
        /\ epc[w] \in {"write", "wrote"} => dir_made
        /\ epc[w] = "wrote" <=> w \in ewrote
        /\ w \in eraced => epc[w] \in {"write", "wrote"}

C21_Witness ==
    /\ Len(epc) = 3
    /\ \A w \in Workers : epc[w] = "wrote"
    /\ ewrote = {1, 2, 3}
    /\ Cardinality(eraced) = 2
    /\ dir_made

(***************************************************************************)
(* C22: in a run of main that has passed its setup, the index the executor *)
(* starts from is, for add, remove, match, list and merge, the one loaded  *)
(* from dbase, and for new and newmerge a new empty index whatever is      *)
(* stored at dbase; no executor is entered, nothing is stored, merged or   *)
(* removed and nothing is saved before that, and every save goes to dbase. *)
(***************************************************************************)
C22_LoadedOrFresh ==
    /\ (entry = "main" /\ cmd \in Commands /\ pc # "start" /\ err \notin SetupErrors) =>
          /\ cmd \in {"add", "remove", "match", "list", "merge"} =>
                /\ hash_tab0 # None
                /\ saves = <<>> => (disk # None /\ hash_tab0 = HTLoad(disk))
          /\ cmd \in {"new", "newmerge"} =>
                /\ hash_tab0.entries = <<>>
                /\ ~hash_tab0.dirty
                /\ \A i \in 1..Len(saves) : saves[i] = <<"primary", dbase>>
                /\ saves # <<>> => disk = HTStored(hash_tab)
    /\ (entry = "main" /\ pc = "start" /\ run = 1) =>
          (executors = {} /\ mutations = 0 /\ saves = <<>> /\ hash_tab = None)

C22_Witness ==
    /\ entry = "main"
    /\ cmd = "new"
    /\ pc = "done"
    /\ files = <<"b">>
    /\ hash_tab0.entries = <<>>
    /\ disk.entries = << <<"b", 1>> >>
    /\ saves = << <<"primary", DbPath>> >>

(***************************************************************************)
(* The paths the resolver is expected to yield, computed from the          *)
(* positions of the newlines of each list file.                            *)
(***************************************************************************)
NewlinesOf(text) == {i \in 1..Len(text) : text[i] = NL}

LineCount(text) ==
    Cardinality(NewlinesOf(text))
        + (IF text # <<>> /\ text[Len(text)] # NL THEN 1 ELSE 0)

NthNewline(text, k) ==
    CHOOSE i \in NewlinesOf(text) : Cardinality({j \in NewlinesOf(text) : j <= i}) = k

LineOf(text, k) ==
    SubSeq(text,
           IF k = 1 THEN 1 ELSE NthNewline(text, k - 1) + 1,
           IF k <= Cardinality(NewlinesOf(text)) THEN NthNewline(text, k) - 1
           ELSE Len(text))

ExpectedOf(name) ==
    IF listflag
    THEN [k \in 1..LineCount(fcontent[name]) |->
              PathJoin(wavdir, LineOf(fcontent[name], k) \o wavext)]
    ELSE <<PathJoin(wavdir, name \o wavext)>>

RECURSIVE Expected(_)
Expected(n) ==
    IF n = 0 THEN <<>> ELSE Expected(n - 1) \o ExpectedOf(filelist[n])

\* the number of arguments before the first list file that cannot be opened
Openable ==
    LET bad == {i \in 1..Len(filelist) : listflag /\ fcontent[filelist[i]] = Unreadable}
    IN  IF bad = {} THEN Len(filelist)
        ELSE (CHOOSE i \in bad : \A j \in bad : i <= j) - 1

IsPrefix(s, t) == Len(s) <= Len(t) /\ s = SubSeq(t, 1, Len(s))

\* C23: the resolver yields, in argument order, one path per argument
\* (base directory joined with argument and suffix) without the list flag,
\* and with it one path per line of each list file, the trailing newline
\* stripped, files in argument order and lines in file order; what has been
\* yielded is always the beginning of that sequence and is all of it once
\* the resolver is exhausted; a list file is opened only after the consumer
\* has ingested every path of the arguments before it.
C23_ResolverYieldsInOrder ==
    lpc # "idle" =>
        /\ IsPrefix(yielded, Expected(Openable))
        /\ IsPrefix(ingested, yielded)
        /\ Len(yielded) <= Len(ingested) + 1
        /\ lpc \in {"exhausted", "done", "ZeroDivisionError"}
               => yielded = Expected(Len(filelist))
        /\ ~listflag => opened = <<>> /\ Len(yielded) = gix
        /\ opened # <<>> =>
               /\ opened = SubSeq(filelist, 1, Len(opened))
               /\ IsPrefix(Expected(Len(opened) - 1), ingested)

C23_Witness ==
    /\ lpc = "done"
    /\ listflag
    /\ Len(opened) = 2
    /\ Len(yielded) = 3
    /\ wavdir = <<"d">>
    /\ yielded[2] = <<"d", "/", ".", "w">>
    /\ yielded[3] = <<"d", "/", "x", ".", "w">>

\* C24: when a list file cannot be opened the run ends with the error of
\* open, whatever the continue-on-error flag: nothing after that argument is
\* opened, yielded or ingested and the index is never saved, even when paths
\* of earlier list files were ingested.
C24_UnopenableListFatal ==
    (lpc # "idle" /\ Openable < Len(filelist)) =>
        /\ gix <= Openable
        /\ Len(opened) <= Openable
        /\ IsPrefix(ingested, Expected(Openable))
        /\ ~lsaved
        /\ lpc \notin {"exhausted", "done", "ZeroDivisionError"}
        /\ ~ENABLED NextResolver => lpc = "IOError"

C24_Witness ==
    /\ lpc = "IOError"
    /\ lcoe
    /\ ingested # <<>>
    /\ Len(filelist) = 2
    /\ ~lsaved

\* C25: in fan-out mode (more than one core) a failure inside one worker propagates to the
\* orchestrator: a run that has stopped with a failed worker (a process of
\* multiproc_add that died, or a task of Parallel that raised) has ended
\* with an error and has persisted nothing.
AWorkerFailed ==
    \/ \E k \in Cores : wpc[k] = "died"
    \/ \E p \in Positions : tstate[p] = "failed"

C25_WorkerFailureAborts ==
    (ncores > 1 /\ AWorkerFailed /\ ~ENABLED Next) => (pc = "error" /\ saves = <<>>)

\* C26: multiproc_add has no timeout: once worker k has ended without
\* sending its partial index, the orchestrator never gets past the receive
\* of worker k: only partials of workers launched before k are ever merged
\* (also when later workers have finished), multiproc_add does not return
\* and no index is saved.
SeqRange(s) == {s[i] : i \in 1..Len(s)}

C26_StuckOnSilentWorker ==
    \A k \in Cores : wpc[k] = "died" =>
        /\ \A j \in SeqRange(merged) : j < k
        /\ pc = "recv" => core <= k
        /\ pc \in {"merge", "join"} => core < k
        /\ pc \notin {"returned", "executor_returned", "done"}
        /\ saves = <<>>

C26_Witness ==
    /\ ncores = 3
    /\ pc = "recv"
    /\ core = 1
    /\ merged = <<0>>
    /\ wpc[1] = "died"
    /\ wpc[2] = "exited"
    /\ pipe[2] # None
    /\ saves = <<>>

\* C27: a remove run of main whose names are all absent from the index is a
\* no-op: in every state after the load the index holds what was loaded,
\* the dirty flag is clear and nothing was written, and the run can only
\* stop by completing normally.
RemoveOfAbsent ==
    /\ entry = "main"
    /\ cmd = "remove"
    /\ files # <<>>
    /\ hash_tab0 # None
    /\ \A i \in 1..Len(files) : files[i] \notin HTNames(hash_tab0)

C28_PartialsSizedAsPrimary ==
    \A k \in Cores : wpc[k] # "unstarted" =>
        /\ wsize[k].hashbits = htsize.hashbits
        /\ wsize[k].depth = htsize.depth
        /\ wsize[k].maxtime = 2 ^ htsize.maxtimebits

C28_Witness ==
    /\ cmd = "add"
    /\ ncores = 2
    /\ htsize = OtherSize
    /\ pc = "returned"
    /\ wsize[0] = [hashbits |-> 16, depth |-> 50, maxtime |-> 1024]
    /\ wsize[1] = wsize[0]

C28_WitnessNew ==
    /\ cmd = "new"
    /\ htsize = OtherSize
    /\ \A k \in Cores : wpc[k] = "exited" /\ wsize[k].maxtime = 1024

\* C29: for every input file name and strip prefix the output file name is
\* the output directory followed by a relative name that has no empty, '.'
\* or '..' component and ends in the extension of the selected kind, so the
\* file lies under the output directory; the prefix is taken off the file
\* name exactly when it is not empty and the file name starts with it.
RelativePart ==
    From(opfname, Len(precompdir) + (IF precompdir[Len(precompdir)] = "/" THEN 0 ELSE 1))

SelectedExt == IF hashes_not_peaks THEN <<".", "a", "f", "p", "t">>
               ELSE <<".", "a", "f", "p", "k">>

C29_OutputUnderPrecompdir ==
    /\ opc \in {"relname", "splitext", "join", "done"} =>
          IF strip_prefix # <<>> /\ Len(strip_prefix) <= Len(filename)
             /\ \A i \in 1..Len(strip_prefix) : filename[i] = strip_prefix[i]
          THEN strip_prefix \o tail_filename = filename
          ELSE tail_filename = filename
    /\ opc = "done" =>
          /\ opfname = precompdir \o RelativePart
             \/ opfname = precompdir \o <<"/">> \o RelativePart
          /\ \A i \in 1..Len(SplitSlash(RelativePart)) :
                SplitSlash(RelativePart)[i] \notin {<<>>, <<".">>, <<".", ".">>}
          /\ Len(RelativePart) >= 5
          /\ From(RelativePart, Len(RelativePart) - 5) = SelectedExt

C29_Witness ==
    /\ opc = "done"
    /\ filename = <<".", ".", "/", "a">>
    /\ strip_prefix = <<".">>
    /\ precompdir = <<"o">>
    /\ ~hashes_not_peaks
    /\ opfname = <<"o", "/", "a", ".", "a", "f", "p", "k">>

\* C30: when no worker fails, so that every worker finishes ingesting its
\* partition, multiproc_add eventually returns: the one-shot sends of the
\* workers, blocking or not, and the receive, merge, join loop of the
\* orchestrator in launch order never wait for each other.
EveryWorkerFinishes == \A i \in 1..Len(files) : ~AnalysisFails(files[i])

C30_MultiprocAddReturns == EveryWorkerFinishes => <>(pc = "returned")

C30_Witness ==
    /\ pc = "returned"
    /\ blocking_send
    /\ ncores = 3
    /\ Len(files) = 2
    /\ merged = <<0, 1, 2>>
    /\ \A k \in Cores : wpc[k] = "exited"

(***************************************************************************)
(* C31: persistence is all or nothing: in a run of main in which the       *)
(* executor has raised (sample rate mismatch or missing sample rate on a   *)
(* merge argument, analysis error, zero total duration, the failed call of *)
(* the multi-process executor) nothing has been saved, and the stored      *)
(* index changes only in a step taken after the executor has returned      *)
(* without error, whatever was stored or merged in memory before.          *)
(***************************************************************************)
ExecutorErrors ==
    {"AssertionError", "KeyError: 'samplerate'", "analysis error", "ZeroDivisionError",
     "ValueError: unrecognized command", "ValueError: unrecognized multiproc command",
     "TypeError: do_cmd_multiproc() missing 1 required positional argument: 'report'"}

ExecutorRaised == entry = "main" /\ pc = "error" /\ err \in ExecutorErrors

C31_NoSaveAfterExecutorError ==
    /\ [](ExecutorRaised => saves = <<>>)
    /\ [][(disk' # disk \/ saves' # saves) =>
              (pc = "executor_returned" /\ err = "none" /\ pc' = "done")]_vars

C31_Witness ==
    /\ ExecutorRaised
    /\ cmd = "merge"
    /\ err = "AssertionError"
    /\ ix = 1
    /\ mutations = 1
    /\ hash_tab.entries # hash_tab0.entries
    /\ saves = <<>>
    /\ disk = HTStored(hash_tab0)

(***************************************************************************)
(* C32: for new and add over any file sequence, the empty one and one that *)
(* adds no processed duration included, the single-process executor runs   *)
(* to completion: a run of main at one core in which no analysis fails     *)
(* never ends with an error raised by the executor.                        *)
(***************************************************************************)
C32_AddCompletesOnAnySequence ==
    (/\ entry = "main"
     /\ cmd \in {"new", "add"}
     /\ ncores = 1
     /\ \A i \in 1..Len(files) : ~AnalysisFails(files[i])
     /\ pc = "error")
    => err \notin ExecutorErrors

(***************************************************************************)
(* C33: in a precompute run with skip-existing, of two positions of the    *)
(* file list that map to the same output file at most one is analysed and  *)
(* written and the other is reported as skipped, at every number of cores  *)
(* and in every interleaving of the tasks.                                 *)
(***************************************************************************)
\* the outcome reported for position p, "none" while there is none
Outcome(p) ==
    IF tresult[p].kind # "none" THEN tresult[p].kind
    ELSE IF "do_cmd" \in executors /\ p <= Len(log) THEN log[p].kind
    ELSE "none"

C33_SameOutputOnceOnly ==
    (cmd = "precompute" /\ skip_existing /\ run = 1) =>
        \A p, q \in Positions :
            (p < q /\ OpfName(files[p]) = OpfName(files[q])
                   /\ Outcome(p) # "none" /\ Outcome(q) # "none")
            => "skipping" \in {Outcome(p), Outcome(q)}

\* the race alone: both positions analysed and written
C33_RaceState ==
    /\ cmd = "precompute" /\ skip_existing /\ run = 1
    /\ ncores = 2
    /\ files = <<"a", "a">>
    /\ Outcome(1) = "wrote" /\ Outcome(2) = "wrote"
    /\ writes = 2 /\ analyzed = 2

(***************************************************************************)
(* C34: a precompute run of main never loads, creates, changes or writes   *)
(* an index, at any number of cores and whether or not dbase is given: the *)
(* index handle is absent in every state of the run, nothing is stored,    *)
(* merged or removed, nothing is saved and the file at dbase stays as it   *)
(* is.                                                                     *)
(***************************************************************************)
C34_PrecomputeHasNoIndex ==
    /\ []((entry = "main" /\ cmd = "precompute") =>
             (hash_tab = None /\ hash_tab0 = None /\ mutations = 0 /\ saves = <<>>))
    /\ [][(entry = "main" /\ cmd = "precompute") => disk' = disk]_vars

C34_Witness ==
    /\ entry = "main"
    /\ cmd = "precompute"
    /\ dbase = DbPath
    /\ disk # None
    /\ pc = "done"
    /\ writes = 1
    /\ hash_tab = None
    /\ saves = <<>>

(***************************************************************************)
(* C35: an add or match run of main on a loaded index whose stored sample  *)
(* rate differs from the analyzer's is not rejected: set-up only reports   *)
(* the difference, the index handle keeps the stored rate, a save writes   *)
(* the index back with the rate it had, and the sample rate assertion is   *)
(* raised by merge and newmerge only.                                      *)
(***************************************************************************)
RateDiffers ==
    /\ entry = "main"
    /\ cmd \in {"add", "match"}
    /\ dbase # NoPath
    /\ disk # None
    /\ disk.samplerate \notin {NoSR, target_sr}

C35_RateDifferenceOnlyReported ==
    /\ []((RateDiffers /\ pc # "start") =>
             /\ hash_tab.samplerate = disk.samplerate
             /\ diag = <<"db samplerate overridden">>
             /\ err \notin SetupErrors \cup {"AssertionError", "KeyError: 'samplerate'"})
    /\ [](err = "AssertionError" => cmd \in {"merge", "newmerge"})
    /\ [][(RateDiffers /\ disk' # disk) =>
              (disk'.samplerate = disk.samplerate /\ disk'.entries # disk.entries)]_vars

C35_Witness ==
    /\ RateDiffers
    /\ cmd = "add"
    /\ pc = "done"
    /\ files = <<"b">>
    /\ disk = [entries |-> << <<"a", 1>>, <<"b", 1>> >>, samplerate |-> OtherSamplerate]
    /\ saves = << <<"primary", DbPath>> >>
    /\ diag # <<>>

====
